---- MODULE Spec2Model ----
(***************************************************************************)
(* The capture -> encode -> output pipeline of ghoststream                 *)
(* (src/pipeline.rs): Pipeline::start spawns a video encoder thread, an    *)
(* optional audio thread and an async capture+output task that talk over   *)
(* bounded channels and two single-shot channels; Pipeline::stop clears    *)
(* the shared running flag.  One step of the model is one interaction of   *)
(* a thread with shared state (a flag, a channel) together with the local  *)
(* computation that follows it.  A capture (capture/portal.rs,             *)
(* capture/dmabuf.rs) is also modelled on its own, with its caller, its    *)
(* capture thread and the clock its frames are stamped with.               *)
(***************************************************************************)
EXTENDS Naturals, Sequences, FiniteSets, TLC

\* crossbeam_channel::bounded::<Frame>(4)
FrameCap == 4
\* tokio::sync::mpsc::channel::<Packet>(8)
PacketCap == 8
\* tokio::sync::mpsc::channel::<audio::AudioPacket>(16)
AudioCap == 16
\* mpsc::channel::<Frame>(4) of PortalCapture, bounded::<DmaBufFrame>(4) of
\* DmaBufCapture
CaptureCap == 4

\* Bounds of the exploration.
MaxFrames == 14
MaxBuffered == 1
MaxSessions == 2
MaxClock == 3
MaxCapFrames == 3
MaxReturned == 3
MaxCapStarts == 2
MaxChildren == 2
MaxFileCalls == 4
MaxMultiCalls == 2
MaxInside == 3
MaxPolls == 5
MaxCallers == 2
MaxCalls == 2
MaxMuxWrites == 5
MaxBuffers == 2

VARIABLES
    audio_enabled,      \* audio_config.enabled, fixed at construction
    output_kind,        \* output_config: "File", "Rtmp", "Srt", "VirtualCamera"
    running,            \* Pipeline.running
    audio_running,      \* Pipeline.audio_running
    stats,              \* Pipeline.stats: frames_captured, frames_encoded,
                        \* frames_dropped
    callerPc,           \* the caller of start()/stop()
    start_result,       \* what the last start() returned
    sessions,           \* number of times start() created channels and spawned
    frame_ch,           \* number of frames in the frame channel
    packet_ch,          \* number of packets in the packet channel
    audio_packet_ch,    \* number of audio packets in the audio channel
    codec_params_ch,    \* video single-shot: "empty", "Some", "None"
    codec_sends,        \* number of sends on the video single-shot
    audio_params_ch,    \* audio single-shot: "empty", "Some", "None", "closed"
    encPc,              \* position of the video encoder thread
    codec_params_tx,    \* encoder thread still holds the single-shot sender
    enc_bound,          \* the encoder has a backend context (an encode bound it)
    enc_buffered,       \* number of frames buffered inside the encoder
    enc_out,            \* number of packets the thread still has to send
    enc_flushed,        \* encoder.flush() was called
    audPc,              \* position of the audio thread
    asyncPc,            \* position of the capture+output task
    video_params,       \* "unset", "Some", "None": value received by the task
    audio_params,       \* "unset", "Some", "None"
    output_handler,     \* "none", "VideoOnly", "AudioVideo"
    out_state,          \* "none", "ready", "failed", "finished"
    written,            \* number of packets passed to write / write_video
    capture_stopped,    \* capture.stop() was called by the task
    capture_ended,      \* next_frame found the capture's channel disconnected
    cap_backend,        \* a capture on its own: "none", "Portal", "DmaBuf"
    cap_active,         \* PortalCapture.active / DmaBufCapture.running
    cap_spawned,        \* number of capture threads spawned by start()
    cap_channels,       \* number of frame channels created by start()
    cap_tx_open,        \* the capture thread holds the channel's sender
    cap_ch,             \* pts of the frames in the capture's frame channel
    cb_pts,             \* pts the process callback stamped, not yet sent (0: none)
    cap_clock,          \* the system clock read by the stamps
    cap_frame_count,    \* frames the process callback has produced
    cap_returned,       \* pts of the frames next_frame returned, this session
    cap_result,         \* the last call on the capture and what it returned
    cap_stream,         \* the stream state last given to state_changed
    cap_quit,           \* state_changed has called mainloop.quit()
    cap_iterated,       \* the loop went round again after that call
    out_arg,            \* the --output argument of cmd_capture (<<>>: none)
    out_config,         \* the Output value handed to the pipeline
    create_ret,         \* what create_output returned: "none", "Ok", "Err"
    sink,               \* the sink create_output built, "dropped" once dropped
    fo_initialized,     \* FileOutput.initialized
    fo_output_ctx,      \* FileOutput.output_ctx is Some
    fo_trace,           \* the calls made on the FileOutput, in order
    mo_trace,           \* the calls made on the MultiOutput, in order
    fl_encoder,         \* an encoder on its own: its field encoder is Some
    fl_inside,          \* frames the backend holds and has not answered
    fl_pc,              \* "idle", "draining" (in the loop of flush), "returned"
    fl_packets,         \* packets flush has pushed on its Vec
    fl_polls,           \* receive_packet calls made by the loop of flush
    fl_last,            \* what the last receive_packet answered
    fl_ret,             \* what flush returned: "none", "Ok", "Err"
    fl_config_resolution, \* config.resolution of the encoder: "None" or a size
    fl_input_resolution,  \* its field input_resolution: "None" or a size
    fl_ctx_resolution,    \* width and height the backend context was opened with
    fl_scaler,          \* its field scaler is Some
    fl_eof_sent,        \* flush has called send_eof
    fl_call,            \* the last call on the encoder: op, frame, ret
    pf_target_resolution, \* frame processing on its own: target_resolution
    pf_target_format,   \* target_format
    pf_frame,           \* the frame recv_timeout returned, if any
    pf_result,          \* what process_frame returned for it
    pf_encoded,         \* the frame handed to encoder.encode, if any
    st_pc,              \* callers of start()/stop() side by side: position
    st_ret,             \* what each caller's last call returned
    st_calls,           \* calls each caller has made
    st_live,            \* sessions spawned since the flag was last cleared
    mx_pc,              \* the A/V muxer arm of the task on its own: position
    mx_video_params,    \* the video params the task received: "Some", "None"
    mx_streams,         \* the streams of the muxer's output context, in order
    mx_video_stream_index, \* AvMuxer.video_stream_index
    mx_audio_stream_index, \* AvMuxer.audio_stream_index: {} or {index}
    mx_initialized,     \* AvMuxer.initialized
    mx_written,         \* the packets written: kind, stream and its type
    fd_open,            \* DMA-BUF capture on its own: descriptors open
    fd_other,           \* descriptors that now name some other file
    fd_ch,              \* the DmaBufFrames in the channel, by their fd
    fd_frame            \* dmabuf_fd of the Frame next_frame returned last

vars == <<audio_enabled, output_kind, running, audio_running, stats,
          callerPc, start_result, sessions, frame_ch, packet_ch,
          audio_packet_ch, codec_params_ch, codec_sends, audio_params_ch,
          encPc, codec_params_tx, enc_bound, enc_buffered, enc_out,
          enc_flushed, audPc, asyncPc, video_params, audio_params, output_handler,
          out_state, written, capture_stopped, capture_ended, cap_backend,
          cap_active, cap_spawned, cap_channels, cap_tx_open, cap_ch, cb_pts,
          cap_clock, cap_frame_count, cap_returned, cap_result, cap_stream,
          cap_quit, cap_iterated, out_arg,
          out_config, create_ret, sink, fo_initialized, fo_output_ctx,
          fo_trace, mo_trace, fl_encoder, fl_inside, fl_pc, fl_packets,
          fl_polls, fl_last, fl_ret, fl_config_resolution,
          fl_input_resolution, fl_ctx_resolution, fl_scaler, fl_eof_sent,
          fl_call, pf_target_resolution, pf_target_format, pf_frame,
          pf_result, pf_encoded, st_pc, st_ret, st_calls, st_live, mx_pc,
          mx_video_params, mx_streams, mx_video_stream_index,
          mx_audio_stream_index, mx_initialized, mx_written, fd_open,
          fd_other, fd_ch, fd_frame>>

outputVars == <<out_arg, out_config, create_ret, sink, fo_initialized,
                fo_output_ctx, fo_trace, mo_trace>>
bindVars == <<fl_config_resolution, fl_input_resolution, fl_ctx_resolution,
              fl_scaler, fl_eof_sent, fl_call>>
flushVars == <<fl_encoder, fl_inside, fl_pc, fl_packets, fl_polls, fl_last,
               fl_ret, bindVars>>
processVars == <<pf_target_resolution, pf_target_format, pf_frame, pf_result,
                 pf_encoded>>
raceVars == <<st_pc, st_ret, st_calls, st_live>>
muxerVars == <<mx_pc, mx_video_params, mx_streams, mx_video_stream_index,
               mx_audio_stream_index, mx_initialized, mx_written>>
fdVars == <<fd_open, fd_other, fd_ch, fd_frame>>
sideVars == <<processVars, raceVars, muxerVars, fdVars>>
componentVars == <<outputVars, flushVars, sideVars>>
streamVars == <<cap_stream, cap_quit, cap_iterated>>
captureVars == <<cap_backend, cap_active, cap_spawned, cap_channels,
                 cap_tx_open, cap_ch, cb_pts, cap_clock, cap_frame_count,
                 cap_returned, cap_result, streamVars>>
configVars == <<audio_enabled, output_kind>>
callerVars == <<callerPc, start_result>>
encVars == <<encPc, codec_params_tx, enc_bound, enc_buffered, enc_out,
            enc_flushed>>
asyncVars == <<asyncPc, video_params, audio_params, output_handler,
               out_state, written, capture_stopped, capture_ended>>
sessionVars == <<sessions, frame_ch, packet_ch, audio_packet_ch,
                 codec_params_ch, codec_sends, audio_params_ch, encVars,
                 audPc, asyncVars, stats, audio_running>>

\* The Output variants a pipeline is configured with.
OutputKinds == {"File", "Rtmp", "Srt", "VirtualCamera"}

\* (Output::File { path, container }, _) of the match on output_config.
output_is_file == output_kind = "File"

\* Pipeline::new_with_audio: both flags false, default stats, nothing spawned.
PipelineNew ==
    /\ audio_enabled \in BOOLEAN
    /\ output_kind \in OutputKinds
    /\ running = FALSE
    /\ audio_running = FALSE
    /\ stats = [frames_captured |-> 0, frames_encoded |-> 0,
                frames_dropped |-> 0]
    /\ callerPc = "new"
    /\ start_result = "none"
    /\ sessions = 0
    /\ frame_ch = 0
    /\ packet_ch = 0
    /\ audio_packet_ch = 0
    /\ codec_params_ch = "empty"
    /\ codec_sends = 0
    /\ audio_params_ch = "empty"
    /\ encPc = "idle"
    /\ codec_params_tx = FALSE
    /\ enc_bound = FALSE
    /\ enc_buffered = 0
    /\ enc_out = 0
    /\ enc_flushed = FALSE
    /\ audPc = "idle"
    /\ asyncPc = "idle"
    /\ video_params = "unset"
    /\ audio_params = "unset"
    /\ output_handler = "none"
    /\ out_state = "none"
    /\ written = 0
    /\ capture_stopped = FALSE
    /\ capture_ended = FALSE

\* No capture object stands on its own next to the pipeline.
CaptureNone ==
    /\ cap_backend = "none"
    /\ cap_active = FALSE
    /\ cap_spawned = 0
    /\ cap_channels = 0
    /\ cap_tx_open = FALSE
    /\ cap_ch = <<>>
    /\ cb_pts = 0
    /\ cap_clock = 1
    /\ cap_frame_count = 0
    /\ cap_returned = <<>>
    /\ cap_result = [op |-> "none", on |-> "none", ret |-> "none"]
    /\ cap_stream = "Unconnected"
    /\ cap_quit = FALSE
    /\ cap_iterated = FALSE

\* ---------------------------------------------------------------- channels

\* The encoder thread owns frame_rx, packet_tx and the video single-shot
\* sender; they are dropped when the thread's closure returns.
EncoderGone == encPc = "done"

\* The task owns frame_tx, packet_rx and audio_packet_rx; they are dropped
\* when the task returns.
TaskGone == asyncPc = "done"

\* ------------------------------------------------------------ Pipeline::start

\* A start() that refuses whenever a session was started before.
StartRejectedOnce == running \/ sessions > 0

\* A start() that does not test the running flag.
StartNeverRejected == FALSE

\* The guard of start(): the running flag is already set.
StartRejected == running

\* start(): AlreadyRunning when the flag is set; otherwise the flag is set, the
\* channels are created and the threads and the task are spawned.
StartBody ==
    /\ IF StartRejected
       THEN /\ start_result' = "AlreadyRunning"
            /\ UNCHANGED <<callerPc, running, sessionVars>>
       ELSE /\ start_result' = "Ok"
            /\ callerPc' = "started"
            /\ running' = TRUE
            /\ sessions' = sessions + 1
            /\ frame_ch' = 0
            /\ packet_ch' = 0
            /\ audio_packet_ch' = 0
            /\ codec_params_ch' = "empty"
            /\ codec_sends' = 0
            /\ audio_running' = (audio_enabled \/ audio_running)
            /\ audPc' = IF audio_enabled THEN "setup" ELSE "idle"
            /\ audio_params_ch' = IF audio_enabled THEN "empty" ELSE "None"
            /\ encPc' = "create"
            /\ codec_params_tx' = TRUE
            /\ enc_bound' = FALSE
            /\ enc_buffered' = 0
            /\ enc_out' = 0
            /\ enc_flushed' = FALSE
            /\ asyncPc' = "create_capture"
            /\ video_params' = "unset"
            /\ audio_params' = "unset"
            /\ output_handler' = "none"
            /\ out_state' = "none"
            /\ written' = 0
            /\ capture_stopped' = FALSE
            /\ capture_ended' = FALSE
            /\ UNCHANGED stats
    /\ UNCHANGED <<componentVars, captureVars, configVars>>

\* start() called on a pipeline that was never stopped.
Start ==
    /\ callerPc \in {"new", "started"}
    /\ StartBody

\* start() called again after a stop() that has returned.  The model follows
\* the newest session: the threads of the earlier one are on channels of their
\* own and share only the two flags and the stats with it.
StartAgain ==
    /\ callerPc = "stopped"
    /\ sessions < MaxSessions
    /\ StartBody

\* start() called again after a stop() that has returned, seen from the
\* earlier session: the call finds the flag clear, sets the two shared flags
\* again and returns Ok; its own threads run on channels of their own, while
\* the threads and the task of the earlier session go on from where they are.
StartBesideEarlier ==
    /\ callerPc = "stopped"
    /\ sessions > 0
    /\ sessions < MaxSessions
    /\ ~StartRejected
    /\ start_result' = "Ok"
    /\ callerPc' = "restarted"
    /\ running' = TRUE
    /\ audio_running' = (audio_enabled \/ audio_running)
    /\ sessions' = sessions + 1
    /\ UNCHANGED <<componentVars, captureVars, configVars, stats, frame_ch,
                   packet_ch, audio_packet_ch, codec_params_ch, codec_sends,
                   audio_params_ch, encVars, audPc, asyncVars>>

\* ------------------------------------------------------------- Pipeline::stop

\* stop(): returns at once when the flag is clear; otherwise clears it and
\* sleeps 200 ms.
StopBegin ==
    /\ callerPc \in {"new", "started"}
    /\ IF ~running
       THEN callerPc' = "stopped" /\ UNCHANGED running
       ELSE callerPc' = "stopping" /\ running' = FALSE
    /\ UNCHANGED <<componentVars, captureVars, configVars, start_result, sessionVars>>

\* The 200 ms sleep of stop() is over: stop() returns Ok.
StopReturn ==
    /\ callerPc = "stopping"
    /\ callerPc' = "stopped"
    /\ UNCHANGED <<componentVars, captureVars, configVars, running, start_result, sessionVars>>

\* is_running(): self.running.load(SeqCst).
is_running == running

\* ------------------------------------------------- the video encoder thread

\* tx.send(v) on the video single-shot (the sender is consumed by the send).
SendCodecParams(v) ==
    /\ codec_params_ch' = v
    /\ codec_sends' = codec_sends + 1
    /\ codec_params_tx' = FALSE

\* encode::create_encoder: on failure the thread sends None and returns.
EncCreate ==
    /\ encPc = "create"
    /\ \E ok \in BOOLEAN :
          IF ok
          THEN /\ encPc' = "init"
               /\ UNCHANGED <<codec_params_ch, codec_sends, codec_params_tx>>
          ELSE /\ encPc' = "done"
               /\ SendCodecParams("None")
    /\ UNCHANGED <<componentVars, captureVars, enc_flushed, configVars, callerVars, running, audio_running, stats,
                   sessions, frame_ch, packet_ch, audio_packet_ch,
                   audio_params_ch, enc_bound, enc_buffered, enc_out, audPc,
                   asyncVars>>

\* encoder.init(): on failure the thread sends None and returns.
EncInit ==
    /\ encPc = "init"
    /\ \E ok \in BOOLEAN :
          IF ok
          THEN /\ encPc' = "loop"
               /\ UNCHANGED <<codec_params_ch, codec_sends, codec_params_tx>>
          ELSE /\ encPc' = "done"
               /\ SendCodecParams("None")
    /\ UNCHANGED <<componentVars, captureVars, enc_flushed, configVars, callerVars, running, audio_running, stats,
                   sessions, frame_ch, packet_ch, audio_packet_ch,
                   audio_params_ch, enc_bound, enc_buffered, enc_out, audPc,
                   asyncVars>>

\* An encoder loop that polls the audio flag instead of the running flag.
EncLoopConditionAudioFlag == audio_running

\* The condition of the encoder loop: encoder_running.load().
EncLoopCondition == running

\* while encoder_running.load(SeqCst)
EncLoopCheck ==
    /\ encPc = "loop"
    /\ encPc' = IF EncLoopCondition THEN "recv" ELSE "after_loop"
    /\ UNCHANGED <<componentVars, captureVars, enc_flushed, configVars, callerVars, running, audio_running, stats,
                   sessions, frame_ch, packet_ch, audio_packet_ch,
                   codec_params_ch, codec_sends, audio_params_ch,
                   codec_params_tx, enc_bound, enc_buffered, enc_out, audPc,
                   asyncVars>>

\* What process_frame followed by encoder.encode can come to for one frame.
\* The encoder returns no packet while it still buffers (at most MaxBuffered
\* frames); a packet takes the place of the frame that went in.
EncodeOutcomes ==
    {"ProcessErr", "EncodeErr", "Packet"} \cup
        (IF enc_buffered < MaxBuffered THEN {"Buffered"} ELSE {})

\* packet_tx.blocking_send(packet) can return: the receiver is gone, or the
\* channel has room.  Otherwise the thread stays blocked in it.
PacketSendReturns == TaskGone \/ packet_ch < PacketCap

\* The thread can take a step of the loop body: it is in recv_timeout, which
\* always returns, or in a blocking_send that can return.
EncLoopBodyReturns == encPc = "recv" \/ (encPc = "send" /\ PacketSendReturns)

\* One step of the body of the encoder loop.  At frame_rx.recv_timeout(100 ms):
\* a frame is processed and encoded, the first packet publishes the codec
\* params and the thread goes on to send the packet; Timeout goes round the
\* loop; Disconnected leaves it.  At packet_tx.blocking_send(packet): the packet
\* is queued, or the error breaks out of the loop.
EncLoopBody ==
    /\ EncLoopBodyReturns
    /\ IF encPc = "send"
       THEN /\ IF TaskGone
               THEN encPc' = "after_loop" /\ UNCHANGED packet_ch
               ELSE /\ encPc' = "loop"
                    /\ packet_ch' = packet_ch + 1
            /\ enc_out' = 0
            /\ UNCHANGED <<frame_ch, enc_bound, enc_buffered, codec_params_ch,
                           codec_sends, codec_params_tx>>
       ELSE /\ UNCHANGED packet_ch
            /\ IF frame_ch > 0
               THEN /\ frame_ch' = frame_ch - 1
                    /\ \E r \in EncodeOutcomes :
                          CASE r = "Packet" ->
                                 /\ enc_bound' = TRUE
                                 /\ enc_out' = 1
                                 /\ UNCHANGED enc_buffered
                                 /\ IF codec_params_tx
                                    THEN SendCodecParams("Some")
                                    ELSE UNCHANGED <<codec_params_ch,
                                                     codec_sends,
                                                     codec_params_tx>>
                                 /\ encPc' = "send"
                            [] r = "Buffered" ->
                                 /\ enc_bound' = TRUE
                                 /\ enc_buffered' = enc_buffered + 1
                                 /\ encPc' = "loop"
                                 /\ UNCHANGED <<enc_out, codec_params_ch,
                                                codec_sends, codec_params_tx>>
                            [] OTHER ->
                                 /\ encPc' = "loop"
                                 /\ UNCHANGED <<enc_bound, enc_buffered,
                                                enc_out, codec_params_ch,
                                                codec_sends, codec_params_tx>>
               ELSE /\ encPc' = IF TaskGone THEN "after_loop" ELSE "loop"
                    /\ UNCHANGED <<frame_ch, enc_bound, enc_buffered, enc_out,
                                   codec_params_ch, codec_sends,
                                   codec_params_tx>>
    /\ UNCHANGED <<componentVars, captureVars, enc_flushed, configVars, callerVars, running, audio_running, stats,
                   sessions, audio_packet_ch, audio_params_ch, audPc,
                   asyncVars>>

\* An encoder thread that forgets the None after its loop.
EncAfterLoopNoSend ==
    /\ encPc = "after_loop"
    /\ \E flushed \in BOOLEAN :
          /\ enc_out' = IF enc_bound /\ flushed THEN enc_buffered ELSE 0
          /\ enc_buffered' = 0
    /\ enc_flushed' = TRUE
    /\ encPc' = "flush_send"
    /\ UNCHANGED <<componentVars, captureVars, configVars, callerVars, running, audio_running, stats,
                   sessions, frame_ch, packet_ch, audio_packet_ch,
                   codec_params_ch, codec_sends, codec_params_tx,
                   audio_params_ch, enc_bound, audPc, asyncVars>>

\* After the loop: if let Some(tx) = codec_params_tx.take() { tx.send(None) },
\* then encoder.flush(), which returns Ok(empty) without a backend context and
\* otherwise the buffered packets, or an error.
EncAfterLoop ==
    /\ encPc = "after_loop"
    /\ IF codec_params_tx
       THEN SendCodecParams("None")
       ELSE UNCHANGED <<codec_params_ch, codec_sends, codec_params_tx>>
    /\ \E flushed \in BOOLEAN :
          /\ enc_out' = IF enc_bound /\ flushed THEN enc_buffered ELSE 0
          /\ enc_buffered' = 0
    /\ enc_flushed' = TRUE
    /\ encPc' = "flush_send"
    /\ UNCHANGED <<componentVars, captureVars, configVars, callerVars, running, audio_running, stats,
                   sessions, frame_ch, packet_ch, audio_packet_ch,
                   audio_params_ch, enc_bound, audPc, asyncVars>>

\* for packet in packets { let _ = packet_tx.blocking_send(packet); } and the
\* end of the thread.
EncFlushSend ==
    /\ encPc = "flush_send"
    /\ IF enc_out = 0
       THEN encPc' = "done" /\ UNCHANGED <<enc_out, packet_ch>>
       ELSE /\ PacketSendReturns
            /\ packet_ch' = IF TaskGone THEN packet_ch
                            ELSE packet_ch + 1
            /\ enc_out' = enc_out - 1
            /\ UNCHANGED encPc
    /\ UNCHANGED <<componentVars, captureVars, enc_flushed, configVars, callerVars, running, audio_running, stats,
                   sessions, frame_ch, audio_packet_ch, codec_params_ch,
                   codec_sends, audio_params_ch, codec_params_tx, enc_bound,
                   enc_buffered, audPc, asyncVars>>

EncoderThread ==
    EncCreate \/ EncInit \/ EncLoopCheck \/ EncLoopBody \/ EncAfterLoop
        \/ EncFlushSend

\* ------------------------------------------------------- the audio thread

\* The condition of the audio loop: the flag run_audio_pipeline was given,
\* a clone of Pipeline.audio_running.
AudioLoopCondition == audio_running

\* audio_packet_tx.blocking_send can return: receiver gone, or room.
AudioSendReturns == TaskGone \/ audio_packet_ch < AudioCap

\* An audio thread whose error paths keep the single-shot sender alive.
AudioParamsLeftPending(ok) == IF ok THEN "Some" ELSE "empty"

\* What the audio single-shot holds after the set-up of run_audio_pipeline:
\* audio_params_tx.send(Some(encoder.params())) on success; on an error the
\* function returns through `?` and its parameter audio_params_tx is dropped.
AudioParamsAfterSetup(ok) == IF ok THEN "Some" ELSE "closed"

\* PipeWireAudioCapture::new, FfmpegAudioEncoder::new, encoder.init() and the
\* send of encoder.params(); an error returns from run_audio_pipeline, which
\* drops the single-shot sender unsent.
AudioSetup ==
    /\ audPc = "setup"
    /\ \E ok \in BOOLEAN :
          /\ audio_params_ch' = AudioParamsAfterSetup(ok)
          /\ audPc' = IF ok THEN "start_capture" ELSE "done"
    /\ UNCHANGED <<componentVars, captureVars, configVars, callerVars, running, audio_running, stats,
                   sessions, frame_ch, packet_ch, audio_packet_ch,
                   codec_params_ch, codec_sends, encVars, asyncVars>>

\* The audio runtime is built and capture.start() awaited; an error returns.
AudioStartCapture ==
    /\ audPc = "start_capture"
    /\ \E ok \in BOOLEAN : audPc' = IF ok THEN "loop" ELSE "done"
    /\ UNCHANGED <<componentVars, captureVars, configVars, callerVars, running, audio_running, stats,
                   sessions, frame_ch, packet_ch, audio_packet_ch,
                   codec_params_ch, codec_sends, audio_params_ch, encVars,
                   asyncVars>>

\* while running.load(SeqCst)
AudioLoopCheck ==
    /\ audPc = "loop"
    /\ audPc' = IF AudioLoopCondition THEN "next" ELSE "flush"
    /\ UNCHANGED <<componentVars, captureVars, configVars, callerVars, running, audio_running, stats,
                   sessions, frame_ch, packet_ch, audio_packet_ch,
                   codec_params_ch, codec_sends, audio_params_ch, encVars,
                   asyncVars>>

\* timeout(100 ms, capture.next_frame()) and encoder.encode: a packet is sent,
\* everything else (timeout, capture error, buffered, encode error) goes round.
AudioNext ==
    /\ audPc = "next"
    /\ \E r \in {"Packet", "Nothing"} :
          audPc' = IF r = "Packet" THEN "send" ELSE "loop"
    /\ UNCHANGED <<componentVars, captureVars, configVars, callerVars, running, audio_running, stats,
                   sessions, frame_ch, packet_ch, audio_packet_ch,
                   codec_params_ch, codec_sends, audio_params_ch, encVars,
                   asyncVars>>

\* packet_tx.blocking_send(packet) in the audio loop: an error breaks out.
AudioSend ==
    /\ audPc = "send"
    /\ AudioSendReturns
    /\ IF TaskGone
       THEN audPc' = "flush" /\ UNCHANGED audio_packet_ch
       ELSE audPc' = "loop" /\ audio_packet_ch' = audio_packet_ch + 1
    /\ UNCHANGED <<componentVars, captureVars, configVars, callerVars, running, audio_running, stats,
                   sessions, frame_ch, packet_ch, codec_params_ch,
                   codec_sends, audio_params_ch, encVars, asyncVars>>

\* encoder.flush(), the blocking sends of what it returns (at most one packet
\* here), capture.stop() and the end of the thread.
AudioFlush ==
    /\ audPc = "flush"
    /\ \E n \in {0, 1} :
          IF n = 0 \/ TaskGone
          THEN UNCHANGED audio_packet_ch
          ELSE /\ audio_packet_ch < AudioCap
               /\ audio_packet_ch' = audio_packet_ch + 1
    /\ audPc' = "done"
    /\ UNCHANGED <<componentVars, captureVars, configVars, callerVars, running, audio_running, stats,
                   sessions, frame_ch, packet_ch, codec_params_ch,
                   codec_sends, audio_params_ch, encVars, asyncVars>>

AudioThread ==
    AudioSetup \/ AudioStartCapture \/ AudioLoopCheck \/ AudioNext
        \/ AudioSend \/ AudioFlush

\* ------------------------------------------------ the capture+output task

\* capture::create_capture(..).await: an error returns from the task.
AsyncCreateCapture ==
    /\ asyncPc = "create_capture"
    /\ \E ok \in BOOLEAN : asyncPc' = IF ok THEN "start_capture" ELSE "done"
    /\ UNCHANGED <<componentVars, captureVars, configVars, callerVars, running, audio_running, stats,
                   sessions, frame_ch, packet_ch, audio_packet_ch,
                   codec_params_ch, codec_sends, audio_params_ch, encVars,
                   audPc, video_params, audio_params, output_handler,
                   out_state, written, capture_stopped, capture_ended>>

\* capture.start().await: an error returns from the task.
AsyncStartCapture ==
    /\ asyncPc = "start_capture"
    /\ \E ok \in BOOLEAN : asyncPc' = IF ok THEN "await_video" ELSE "done"
    /\ UNCHANGED <<componentVars, captureVars, configVars, callerVars, running, audio_running, stats,
                   sessions, frame_ch, packet_ch, audio_packet_ch,
                   codec_params_ch, codec_sends, audio_params_ch, encVars,
                   audPc, video_params, audio_params, output_handler,
                   out_state, written, capture_stopped, capture_ended>>

\* A task that does not wait for the video single-shot (reads it as it is).
VideoParamsNotAwaited == TRUE

\* codec_params_rx.await completes: a value was sent, or the sender was dropped
\* unsent (the encoder thread is gone), which reads as None.
VideoParamsResolved == codec_params_ch # "empty" \/ EncoderGone

\* let video_params = match codec_params_rx.await { .. }
AsyncAwaitVideo ==
    /\ asyncPc = "await_video"
    /\ VideoParamsResolved
    /\ video_params' = IF codec_params_ch = "Some" THEN "Some" ELSE "None"
    /\ asyncPc' = "await_audio"
    /\ UNCHANGED <<componentVars, captureVars, configVars, callerVars, running, audio_running, stats,
                   sessions, frame_ch, packet_ch, audio_packet_ch,
                   codec_params_ch, codec_sends, audio_params_ch, encVars,
                   audPc, audio_params, output_handler, out_state, written,
                   capture_stopped, capture_ended>>

\* let audio_params = match audio_params_rx.await { .. }
AsyncAwaitAudio ==
    /\ asyncPc = "await_audio"
    /\ audio_params_ch # "empty"
    /\ audio_params' = IF audio_params_ch = "Some" THEN "Some" ELSE "None"
    /\ asyncPc' = "init_output"
    /\ UNCHANGED <<componentVars, captureVars, configVars, callerVars, running, audio_running, stats,
                   sessions, frame_ch, packet_ch, audio_packet_ch,
                   codec_params_ch, codec_sends, audio_params_ch, encVars,
                   audPc, video_params, output_handler, out_state, written,
                   capture_stopped, capture_ended>>

\* let use_av_muxer = audio_enabled && audio_params.is_some();
use_av_muxer == audio_enabled /\ audio_params = "Some"

\* A task that initialises its output before it awaits the single-shots.
OutputInitEarly == asyncPc = "await_video"

\* Where the task creates and initialises its output: after both awaits.
OutputInitPoint == asyncPc = "init_output"

\* OutputSink::init_with_codec(codec_params) of the sink built for kind:
\* FileOutput, RtmpOutput and SrtOutput run init_muxer / init_rtmp / init_srt
\* with the params given, or with CodecParams::default() when given None
\* (init_default); VirtualCamera ignores the params and starts its node.
\* Either way the result is that of the I/O done: Ok or an error.
init_with_codec(kind, codec_params) == {"Ok", "Err"}

\* What the creation and initialisation of the output can come to: the A/V
\* muxer of a file with audio (new, add streams, start), or create_output
\* and init_with_codec(video_params.as_ref()).
OutputInitOutcomes ==
    IF output_is_file /\ use_av_muxer
    THEN {"Ok", "Err"}
    ELSE init_with_codec(output_kind, video_params)

\* match (&output_config, use_av_muxer): AvMuxer::new, add_video_stream,
\* add_audio_stream and start for a file with audio; otherwise create_output
\* and init_with_codec(video_params).  Any error returns from the task.
AsyncInitOutput ==
    /\ OutputInitPoint
    /\ \E r \in OutputInitOutcomes :
          IF r = "Ok"
          THEN /\ output_handler' = IF output_is_file /\ use_av_muxer
                                    THEN "AudioVideo" ELSE "VideoOnly"
               /\ out_state' = "ready"
               /\ asyncPc' = "select"
          ELSE /\ output_handler' = "none"
               /\ out_state' = "failed"
               /\ asyncPc' = "done"
    /\ UNCHANGED <<componentVars, captureVars, configVars, callerVars, running, audio_running, stats,
                   sessions, frame_ch, packet_ch, audio_packet_ch,
                   codec_params_ch, codec_sends, audio_params_ch, encVars,
                   audPc, video_params, audio_params, written,
                   capture_stopped, capture_ended>>

\* frame_tx.send(frame) can return: the receiver is gone, or the channel has
\* room.  Otherwise the call stays blocked (crossbeam's send waits for room).
FrameSendReturns == EncoderGone \/ frame_ch < FrameCap

\* The precondition of the shutdown branch of select!: !running.load().
ShutdownCondition == ~running

\* The branches of select! that can complete: the 1 ms sleep when its
\* precondition holds, capture.next_frame() (which always returns within its
\* 100 ms timeout), packet_rx.recv() and audio_packet_rx.recv() when they
\* yield Some.
SelectReady ==
    {"capture"}
        \cup (IF ShutdownCondition THEN {"shutdown"} ELSE {})
        \cup (IF packet_ch > 0 THEN {"packet"} ELSE {})
        \cup (IF audio_packet_ch > 0 THEN {"audio"} ELSE {})

\* What capture.next_frame() returns: a frame, an error that passes (a
\* timeout), or the error of a capture whose channel is disconnected, which
\* every later call returns too.
CaptureOutcomes ==
    IF capture_ended
    THEN {"Ended"}
    ELSE {"Err", "Ended"}
            \cup (IF stats.frames_captured < MaxFrames THEN {"Frame"} ELSE {})

\* One branch b of the select! of the main loop.
\*   shutdown: break.
\*   capture:  Ok(frame): frames_captured += 1, then frame_tx.send(frame);
\*             Err(e): on to the log of the error.
\*   packet:   frames_encoded += 1, then output.write / muxer.write_video
\*             (an error is logged).
\*   audio:    muxer.write_audio when the handler is the A/V muxer.
AsyncSelectBranch(b) ==
    /\ asyncPc = "select"
    /\ b \in SelectReady
    /\ CASE b = "shutdown" ->
              /\ asyncPc' = "stop_capture"
              /\ UNCHANGED <<stats, packet_ch, written, audio_packet_ch,
                             capture_ended>>
         [] b = "capture" ->
              /\ \E r \in CaptureOutcomes :
                    IF r = "Frame"
                    THEN /\ stats' = [stats EXCEPT !.frames_captured = @ + 1]
                         /\ asyncPc' = "send_frame"
                         /\ UNCHANGED capture_ended
                    ELSE /\ asyncPc' = "capture_err"
                         /\ capture_ended' = (r = "Ended")
                         /\ UNCHANGED stats
              /\ UNCHANGED <<packet_ch, written, audio_packet_ch>>
         [] b = "packet" ->
              /\ packet_ch' = packet_ch - 1
              /\ stats' = [stats EXCEPT !.frames_encoded = @ + 1]
              /\ written' = written + 1
              /\ UNCHANGED <<asyncPc, audio_packet_ch, capture_ended>>
         [] OTHER ->
              /\ audio_packet_ch' = audio_packet_ch - 1
              /\ UNCHANGED <<asyncPc, stats, packet_ch, written,
                             capture_ended>>
    /\ UNCHANGED <<componentVars, captureVars, configVars, callerVars, running, audio_running, sessions,
                   frame_ch, codec_params_ch, codec_sends, audio_params_ch,
                   encVars, audPc, video_params, audio_params, output_handler,
                   out_state, capture_stopped>>

\* tokio::select! completes with one of its ready branches.
AsyncSelect == \E b \in SelectReady : AsyncSelectBranch(b)

\* The shutdown branch of select!, on its own (for fairness).
AsyncShutdown == AsyncSelectBranch("shutdown")

\* Err(e) => { tracing::error!("Capture error: {}", e); }: whatever the error,
\* the task logs it and goes round the main loop.
AsyncCaptureErr ==
    /\ asyncPc = "capture_err"
    /\ asyncPc' = "select"
    /\ UNCHANGED <<componentVars, captureVars, configVars, callerVars, running, audio_running,
                   stats, sessions, frame_ch, packet_ch, audio_packet_ch,
                   codec_params_ch, codec_sends, audio_params_ch, encVars,
                   audPc, video_params, audio_params, output_handler,
                   out_state, written, capture_stopped, capture_ended>>

\* if frame_tx.send(frame).is_err() { break; }
AsyncSendFrame ==
    /\ asyncPc = "send_frame"
    /\ FrameSendReturns
    /\ IF EncoderGone
       THEN asyncPc' = "stop_capture" /\ UNCHANGED frame_ch
       ELSE asyncPc' = "select" /\ frame_ch' = frame_ch + 1
    /\ UNCHANGED <<componentVars, captureVars, configVars, callerVars, running, audio_running, stats,
                   sessions, packet_ch, audio_packet_ch, codec_params_ch,
                   codec_sends, audio_params_ch, encVars, audPc, video_params,
                   audio_params, output_handler, out_state, written,
                   capture_stopped, capture_ended>>

\* let _ = capture.stop().await;
AsyncStopCapture ==
    /\ asyncPc = "stop_capture"
    /\ capture_stopped' = TRUE
    /\ asyncPc' = "drain_video"
    /\ UNCHANGED <<componentVars, captureVars, configVars, callerVars, running, audio_running, stats,
                   sessions, frame_ch, packet_ch, audio_packet_ch,
                   codec_params_ch, codec_sends, audio_params_ch, encVars,
                   audPc, video_params, audio_params, output_handler,
                   out_state, written, capture_ended>>

\* while let Ok(packet) = packet_rx.try_recv() { write }: the loop writes what
\* the channel holds and ends when try_recv finds it empty.  The loop is one
\* step: a try_recv and a write take microseconds, a packet takes an encode to
\* arrive, so the producer does not keep the loop from ending.
AsyncDrainVideo ==
    /\ asyncPc = "drain_video"
    /\ written' = written + packet_ch
    /\ packet_ch' = 0
    /\ asyncPc' = "drain_audio"
    /\ UNCHANGED <<componentVars, captureVars, configVars, callerVars, running, audio_running, stats,
                   sessions, frame_ch, audio_packet_ch, codec_params_ch,
                   codec_sends, audio_params_ch, encVars, audPc, video_params,
                   audio_params, output_handler, out_state, capture_stopped, capture_ended>>

\* while let Ok(audio_packet) = audio_packet_rx.try_recv() { .. }: likewise.
AsyncDrainAudio ==
    /\ asyncPc = "drain_audio"
    /\ audio_packet_ch' = 0
    /\ asyncPc' = "finish"
    /\ UNCHANGED <<componentVars, captureVars, configVars, callerVars, running, audio_running, stats,
                   sessions, frame_ch, packet_ch, codec_params_ch, codec_sends,
                   audio_params_ch, encVars, audPc, video_params, audio_params,
                   output_handler, out_state, written, capture_stopped, capture_ended>>

\* output.finish() / muxer.finish(), and the end of the task.
AsyncFinish ==
    /\ asyncPc = "finish"
    /\ out_state' = "finished"
    /\ asyncPc' = "done"
    /\ UNCHANGED <<componentVars, captureVars, configVars, callerVars, running, audio_running, stats,
                   sessions, frame_ch, packet_ch, audio_packet_ch,
                   codec_params_ch, codec_sends, audio_params_ch, encVars,
                   audPc, video_params, audio_params, output_handler,
                   written, capture_stopped, capture_ended>>

AsyncTask ==
    AsyncCreateCapture \/ AsyncStartCapture \/ AsyncAwaitVideo
        \/ AsyncAwaitAudio \/ AsyncInitOutput \/ AsyncSelect
        \/ AsyncCaptureErr \/ AsyncSendFrame \/ AsyncStopCapture \/ AsyncDrainVideo \/ AsyncDrainAudio
        \/ AsyncFinish

\* ------------------------------------- a capture on its own (capture/*.rs)

\* PortalCapture::new / DmaBufCapture::new: inactive, no channel, no thread.
CaptureNew ==
    /\ cap_backend \in {"Portal", "DmaBuf"}
    /\ cap_active = FALSE
    /\ cap_spawned = 0
    /\ cap_channels = 0
    /\ cap_tx_open = FALSE
    /\ cap_ch = <<>>
    /\ cb_pts = 0
    /\ cap_clock = 1
    /\ cap_frame_count = 0
    /\ cap_returned = <<>>
    /\ cap_result = [op |-> "none", on |-> "none", ret |-> "none"]
    /\ cap_stream = "Unconnected"
    /\ cap_quit = FALSE
    /\ cap_iterated = FALSE

\* The pipeline next to the capture takes no step.
PipelineIdle ==
    UNCHANGED <<configVars, callerVars, running, sessionVars>>

\* What start() returns on a session that is already started:
\* PortalCapture returns Err(Error::Pipeline("Capture already active")),
\* DmaBufCapture returns Ok(()).
StartOnStarted ==
    IF cap_backend = "Portal" THEN "Err(Pipeline)" ELSE "Ok"

\* Capture::start.  On a started session nothing changes.  Otherwise Portal
\* asks the portal for permission (an error returns it), and both set the
\* flag, create the frame channel and spawn the capture thread.
CapStart ==
    /\ cap_backend # "none"
    /\ IF cap_active
       THEN /\ cap_result' = [op |-> "start", on |-> "started",
                              ret |-> StartOnStarted]
            /\ UNCHANGED <<cap_active, cap_spawned, cap_channels, cap_tx_open,
                           cap_ch, cb_pts, cap_returned, streamVars>>
       ELSE /\ cap_spawned < MaxCapStarts
            /\ \E granted \in (IF cap_backend = "Portal" THEN BOOLEAN
                                                         ELSE {TRUE}) :
                  IF granted
                  THEN /\ cap_active' = TRUE
                       /\ cap_spawned' = cap_spawned + 1
                       /\ cap_channels' = cap_channels + 1
                       /\ cap_tx_open' = TRUE
                       /\ cap_ch' = <<>>
                       /\ cb_pts' = 0
                       /\ cap_returned' = <<>>
                       /\ cap_stream' = "Unconnected"
                       /\ cap_quit' = FALSE
                       /\ cap_iterated' = FALSE
                       /\ cap_result' = [op |-> "start", on |-> "stopped",
                                         ret |-> "Ok"]
                  ELSE /\ cap_result' = [op |-> "start", on |-> "stopped",
                                         ret |-> "Err(Portal)"]
                       /\ UNCHANGED <<cap_active, cap_spawned, cap_channels,
                                      cap_tx_open, cap_ch, cb_pts,
                                      cap_returned, streamVars>>
    /\ UNCHANGED <<cap_backend, cap_clock, cap_frame_count>>
    /\ PipelineIdle
    /\ UNCHANGED componentVars

\* Capture::stop.  PortalCapture clears the flag and joins the capture thread,
\* which ends once its callback is over and drops the sender; DmaBufCapture
\* only clears the flag.
CapStop ==
    /\ cap_backend # "none"
    /\ IF cap_backend = "Portal"
       THEN IF cap_active
            THEN /\ cb_pts = 0
                 /\ cap_active' = FALSE
                 /\ cap_tx_open' = FALSE
            ELSE UNCHANGED <<cap_active, cap_tx_open>>
       ELSE cap_active' = FALSE /\ UNCHANGED cap_tx_open
    /\ cap_result' = [op |-> "stop", on |-> "any", ret |-> "Ok"]
    /\ UNCHANGED <<cap_backend, cap_spawned, cap_channels, cap_ch, cb_pts,
                   cap_clock, cap_frame_count, cap_returned>>
    /\ PipelineIdle
    /\ UNCHANGED <<componentVars, streamVars>>

\* The capture thread returns and drops the sender: run_pipewire_capture or
\* run_dmabuf_capture failed (the DMA-BUF thread then clears the flag), or the
\* DMA-BUF thread's loop found the flag cleared.
CapThreadExit ==
    /\ cap_tx_open
    /\ cb_pts = 0
    /\ \E failed \in BOOLEAN :
          /\ failed \/ (cap_backend = "DmaBuf" /\ ~cap_active)
          /\ cap_active' = IF failed /\ cap_backend = "DmaBuf" THEN FALSE
                           ELSE cap_active
    /\ cap_tx_open' = FALSE
    /\ UNCHANGED <<cap_backend, cap_spawned, cap_channels, cap_ch, cb_pts,
                   cap_clock, cap_frame_count, cap_returned, cap_result>>
    /\ PipelineIdle
    /\ UNCHANGED <<componentVars, streamVars>>

\* Time passes.
CapTick ==
    /\ cap_backend # "none"
    /\ cap_clock < MaxClock
    /\ cap_clock' = cap_clock + 1
    /\ UNCHANGED <<cap_backend, cap_active, cap_spawned, cap_channels,
                   cap_tx_open, cap_ch, cb_pts, cap_frame_count, cap_returned,
                   cap_result>>
    /\ PipelineIdle
    /\ UNCHANGED <<componentVars, streamVars>>

\* The pts the process callback gives a frame: PortalCapture reads the system
\* clock, DmaBufCapture multiplies its frame counter by the frame duration.
CallbackPts ==
    IF cap_backend = "Portal" THEN cap_clock ELSE cap_frame_count + 1

\* The process callback of the capture thread builds a frame and stamps it.
CapCallbackStamp ==
    /\ cap_tx_open
    /\ cb_pts = 0
    /\ cap_frame_count < MaxCapFrames
    /\ cb_pts' = CallbackPts
    /\ cap_frame_count' = cap_frame_count + 1
    /\ UNCHANGED <<cap_backend, cap_active, cap_spawned, cap_channels,
                   cap_tx_open, cap_ch, cap_clock, cap_returned, cap_result>>
    /\ PipelineIdle
    /\ UNCHANGED <<componentVars, streamVars>>

\* let _ = frame_tx.try_send(frame): the frame is queued, or dropped when the
\* channel is full.
CapCallbackSend ==
    /\ cb_pts # 0
    /\ cap_ch' = IF Len(cap_ch) < CaptureCap THEN Append(cap_ch, cb_pts)
                 ELSE cap_ch
    /\ cb_pts' = 0
    /\ UNCHANGED <<cap_backend, cap_active, cap_spawned, cap_channels,
                   cap_tx_open, cap_clock, cap_frame_count, cap_returned,
                   cap_result>>
    /\ PipelineIdle
    /\ UNCHANGED <<componentVars, streamVars>>

\* What next_frame returns when 100 ms pass without a frame: PortalCapture
\* returns Ok(a blank frame stamped with the clock), DmaBufCapture returns
\* Err(Error::Timeout).
NextFrameOnTimeout ==
    IF cap_backend = "Portal" THEN "Ok(blank frame)" ELSE "Err(Timeout)"

\* What next_frame returns when the channel is closed and empty:
\* PortalCapture returns Err(Error::Pipeline("Frame channel closed")),
\* DmaBufCapture returns Err(Error::CaptureEnded).
NextFrameOnClosed ==
    IF cap_backend = "Portal" THEN "Err(Pipeline)" ELSE "Err(CaptureEnded)"

\* Capture::next_frame.  PortalCapture refuses when the flag is clear; both
\* refuse without a channel.  A queued frame is returned; an empty closed
\* channel and a timeout return as above.
CapNextFrame ==
    /\ cap_backend # "none"
    /\ Len(cap_returned) < MaxReturned
    /\ IF (cap_backend = "Portal" /\ ~cap_active) \/ cap_channels = 0
       THEN /\ cap_result' = [op |-> "next_frame", on |-> "not started",
                              ret |-> IF cap_backend = "Portal"
                                      THEN "Err(PipelineNotStarted)"
                                      ELSE "Err(CaptureNotStarted)"]
            /\ UNCHANGED <<cap_ch, cap_returned>>
       ELSE IF cap_ch # <<>>
       THEN /\ cap_result' = [op |-> "next_frame", on |-> "frame",
                              ret |-> "Ok(frame)"]
            /\ cap_returned' = Append(cap_returned, Head(cap_ch))
            /\ cap_ch' = Tail(cap_ch)
       ELSE IF ~cap_tx_open
       THEN /\ cap_result' = [op |-> "next_frame", on |-> "closed",
                              ret |-> NextFrameOnClosed]
            /\ UNCHANGED <<cap_ch, cap_returned>>
       ELSE /\ cap_result' = [op |-> "next_frame", on |-> "timeout",
                              ret |-> NextFrameOnTimeout]
            /\ cap_returned' = IF cap_backend = "Portal"
                               THEN Append(cap_returned, cap_clock)
                               ELSE cap_returned
            /\ UNCHANGED cap_ch
    /\ UNCHANGED <<cap_backend, cap_active, cap_spawned, cap_channels,
                   cap_tx_open, cb_pts, cap_clock, cap_frame_count>>
    /\ PipelineIdle
    /\ UNCHANGED <<componentVars, streamVars>>

\* The stream states the listener is told about.
StreamStates == {"Unconnected", "Connecting", "Paused", "Streaming", "Error"}

\* The state_changed callback of the PipeWire stream, run by the capture
\* thread inside iterate: it logs the change and, when the new state is
\* Error, calls mainloop.quit().
CapStateChanged ==
    /\ cap_backend = "Portal"
    /\ cap_tx_open
    /\ cb_pts = 0
    /\ cap_stream # "Error"
    /\ \E new \in StreamStates \ {cap_stream} :
          /\ cap_stream' = new
          /\ cap_quit' = (cap_quit \/ new = "Error")
    /\ UNCHANGED <<cap_backend, cap_active, cap_spawned, cap_channels,
                   cap_tx_open, cap_ch, cb_pts, cap_clock, cap_frame_count,
                   cap_returned, cap_result, cap_iterated>>
    /\ PipelineIdle
    /\ UNCHANGED componentVars

\* The condition of the capture thread's loop,
\* `while active_clone.load(Ordering::SeqCst)`: the flag alone decides.
LoopCondition == cap_active

\* The capture thread tests the condition of its loop between two calls of
\* mainloop.loop_().iterate(16 ms): it goes round again while the condition
\* holds, and else returns Ok(()) and drops the sender.
CapLoopTest ==
    /\ cap_backend = "Portal"
    /\ cap_tx_open
    /\ cb_pts = 0
    /\ IF LoopCondition
       THEN /\ cap_iterated' = cap_quit
            /\ UNCHANGED cap_tx_open
       ELSE /\ cap_tx_open' = FALSE
            /\ UNCHANGED cap_iterated
    /\ UNCHANGED <<cap_backend, cap_active, cap_spawned, cap_channels, cap_ch,
                   cb_pts, cap_clock, cap_frame_count, cap_returned,
                   cap_result, cap_stream, cap_quit>>
    /\ PipelineIdle
    /\ UNCHANGED componentVars

\* ------------------------------- output routing and sinks (main.rs, output/*)

\* The shapes of the argument of `capture --output`, as character sequences.
WordCamera == <<"c", "a", "m", "e", "r", "a">>
ExtMkv == <<".", "m", "k", "v">>
ExtMp4 == <<".", "m", "p", "4">>
ExtWebm == <<".", "w", "e", "b", "m">>
ExtTs == <<".", "t", "s">>
SchemeRtmp == <<"r", "t", "m", "p", ":", "/", "/">>
SchemeRtmps == <<"r", "t", "m", "p", "s", ":", "/", "/">>
SchemeSrt == <<"s", "r", "t", ":", "/", "/">>

\* The arguments tried: the word camera, a path with each extension, a URL of
\* each scheme, and a path without an extension.
OutputArgs ==
    {WordCamera, <<"a">> \o ExtMkv, <<"a">> \o ExtMp4, <<"a">> \o ExtWebm,
     <<"a">> \o ExtTs, SchemeRtmp \o <<"h">>, SchemeRtmps \o <<"h">>,
     SchemeSrt \o <<"h">>, <<"a">>}

\* str::ends_with and str::starts_with.
ends_with(s, t) ==
    Len(s) >= Len(t) /\ SubSeq(s, Len(s) - Len(t) + 1, Len(s)) = t

starts_with(s, t) ==
    Len(s) >= Len(t) /\ SubSeq(s, 1, Len(t)) = t

\* An Output value: its variant, the container of a File, the number of
\* entries of a Multiple that are not themselves a Multiple.
OutputOf(k, c, n) == [kind |-> k, container |-> c, children |-> n]

NoOutput == OutputOf("none", "none", 0)

\* cmd_capture: the chain of tests on the --output argument.
RouteOutput(output) ==
    IF output = WordCamera THEN OutputOf("VirtualCamera", "none", 0)
    ELSE IF ends_with(output, ExtMkv) THEN OutputOf("File", "Matroska", 0)
    ELSE IF ends_with(output, ExtMp4) THEN OutputOf("File", "Mp4", 0)
    ELSE IF ends_with(output, ExtWebm) THEN OutputOf("File", "WebM", 0)
    ELSE IF starts_with(output, SchemeRtmp) THEN OutputOf("Rtmp", "none", 0)
    ELSE OutputOf("File", "Matroska", 0)

\* The Output values a caller of the library can build: Output::file with each
\* Container, Output::rtmp, Output::srt, Output::virtual_camera,
\* Output::multiple and Output::Null.
BuilderOutputs ==
    {OutputOf("File", c, 0) : c \in {"Matroska", "Mp4", "WebM", "Ts"}}
        \cup {OutputOf(k, "none", 0) :
                 k \in {"Rtmp", "Srt", "VirtualCamera", "Null"}}
        \cup {OutputOf("Multiple", "none", n) : n \in 0..MaxChildren}

\* create_output: the sink built for each variant; MultiOutput::new fails
\* when no entry is left.
create_output(o) ==
    CASE o.kind = "VirtualCamera" -> [ret |-> "Ok", sink |-> "VirtualCamera"]
      [] o.kind = "File" -> [ret |-> "Ok", sink |-> "FileOutput"]
      [] o.kind = "Rtmp" -> [ret |-> "Ok", sink |-> "RtmpOutput"]
      [] o.kind = "Srt" -> [ret |-> "Ok", sink |-> "SrtOutput"]
      [] o.kind = "Multiple" ->
            IF o.children = 0
            THEN [ret |-> "Err", sink |-> "none"]
            ELSE [ret |-> "Ok", sink |-> "MultiOutput"]
      [] OTHER -> [ret |-> "Ok", sink |-> "NullOutput"]

\* No output configured, no sink created.
OutputNone ==
    /\ out_arg = <<>>
    /\ out_config = NoOutput
    /\ create_ret = "none"
    /\ sink = "none"
    /\ fo_initialized = FALSE
    /\ fo_output_ctx = FALSE
    /\ fo_trace = <<>>
    /\ mo_trace = <<>>

\* The pipeline, the capture and the encoder next to the sinks take no step.
OutputAlone ==
    /\ UNCHANGED <<configVars, callerVars, running, sessionVars>>
    /\ UNCHANGED <<captureVars, flushVars, sideVars>>

\* cmd_capture turns its --output argument into an Output.
CmdCaptureOutput ==
    /\ out_config = NoOutput
    /\ \E output \in OutputArgs :
          /\ out_arg' = output
          /\ out_config' = RouteOutput(output)
    /\ UNCHANGED <<create_ret, sink, fo_initialized, fo_output_ctx, fo_trace,
                   mo_trace>>
    /\ OutputAlone

\* PipelineBuilder::output(o) with an Output built by the caller.
BuilderOutput ==
    /\ out_config = NoOutput
    /\ \E o \in BuilderOutputs : out_config' = o
    /\ UNCHANGED <<out_arg, create_ret, sink, fo_initialized, fo_output_ctx,
                   fo_trace, mo_trace>>
    /\ OutputAlone

\* output::create_output(output_config).await
CreateOutput ==
    /\ out_config # NoOutput
    /\ create_ret = "none"
    /\ create_ret' = create_output(out_config).ret
    /\ sink' = create_output(out_config).sink
    /\ UNCHANGED <<out_arg, out_config, fo_initialized, fo_output_ctx,
                   fo_trace, mo_trace>>
    /\ OutputAlone

\* What a call on the FileOutput did: its result, whether it wrote the header,
\* whether it called write_trailer, and whether the muxer context was open
\* (output_ctx was Some) when the call began.
FileCall(o, r, h, t) ==
    [op |-> o, ret |-> r, header |-> h, trailer |-> t,
     open |-> fo_output_ctx]

\* FileOutput::init_with_codec on a sink whose fields are initd and ctx, with
\* io the outcome of init_muxer (create directories, open the context, add the
\* stream, write the header): nothing when already initialized; on success the
\* context is stored and initialized is set; on an error nothing is stored.
FileInit(initd, ctx, io) ==
    IF initd
    THEN [ret |-> "Ok", initialized |-> TRUE, output_ctx |-> ctx,
          header |-> FALSE]
    ELSE IF io = "Ok"
         THEN [ret |-> "Ok", initialized |-> TRUE, output_ctx |-> TRUE,
               header |-> TRUE]
         ELSE [ret |-> "Err", initialized |-> FALSE, output_ctx |-> ctx,
               header |-> FALSE]

\* FileOutput::init_with_codec(Some(params)) or (None): init_muxer with the
\* params or with CodecParams::default().
FileInitWithCodec ==
    /\ sink = "FileOutput"
    /\ Len(fo_trace) < MaxFileCalls
    /\ \E p \in {"Some", "None"}, io \in {"Ok", "Err"} :
          LET i == FileInit(fo_initialized, fo_output_ctx, io)
          IN  /\ fo_initialized' = i.initialized
              /\ fo_output_ctx' = i.output_ctx
              /\ fo_trace' = Append(fo_trace,
                     FileCall("init_with_codec", i.ret, i.header, FALSE))
    /\ UNCHANGED <<out_arg, out_config, create_ret, sink, mo_trace>>
    /\ OutputAlone

\* FileOutput::write: init_with_codec(None) first when not initialized, an
\* error when there is no context, then write_interleaved (io2).
FileWrite ==
    /\ sink = "FileOutput"
    /\ Len(fo_trace) < MaxFileCalls
    /\ \E io1 \in {"Ok", "Err"}, io2 \in {"Ok", "Err"} :
          LET i == FileInit(fo_initialized, fo_output_ctx, io1)
              r == IF i.ret = "Err" \/ ~i.output_ctx THEN "Err" ELSE io2
          IN  /\ fo_initialized' = i.initialized
              /\ fo_output_ctx' = i.output_ctx
              /\ fo_trace' = Append(fo_trace,
                     FileCall("write", r, i.header, FALSE))
    /\ UNCHANGED <<out_arg, out_config, create_ret, sink, mo_trace>>
    /\ OutputAlone

\* FileOutput::finish: Ok at once when not initialized; write_trailer (io) on
\* the context, whose error returns through `?` before any field is reset;
\* then output_ctx = None and initialized = false.
FileFinish ==
    /\ sink = "FileOutput"
    /\ Len(fo_trace) < MaxFileCalls
    /\ \E io \in {"Ok", "Err"} :
          IF ~fo_initialized
          THEN /\ fo_trace' = Append(fo_trace,
                      FileCall("finish", "Ok", FALSE, FALSE))
               /\ UNCHANGED <<fo_initialized, fo_output_ctx>>
          ELSE IF fo_output_ctx /\ io = "Err"
               THEN /\ fo_trace' = Append(fo_trace,
                           FileCall("finish", "Err", FALSE, TRUE))
                    /\ UNCHANGED <<fo_initialized, fo_output_ctx>>
               ELSE /\ fo_trace' = Append(fo_trace,
                           FileCall("finish", "Ok", FALSE, fo_output_ctx))
                    /\ fo_output_ctx' = FALSE
                    /\ fo_initialized' = FALSE
    /\ UNCHANGED <<out_arg, out_config, create_ret, sink, mo_trace>>
    /\ OutputAlone

\* Drop for FileOutput: write_trailer when still initialized with a context.
FileDrop ==
    /\ sink = "FileOutput"
    /\ fo_trace' = Append(fo_trace,
           FileCall("drop", "Ok", FALSE, fo_initialized /\ fo_output_ctx))
    /\ sink' = "dropped"
    /\ UNCHANGED <<out_arg, out_config, create_ret, fo_initialized,
                   fo_output_ctx, mo_trace>>
    /\ OutputAlone

\* A write loop that leaves at the first child whose write failed.
BreakAtWriteError == FALSE

\* The body of the loop of MultiOutput::write on Err(e): the error is logged;
\* there is no break and no return.
ContinueAfterWriteError == TRUE

\* for (i, output) in self.outputs.iter_mut().enumerate(): the children the
\* loop calls from child i on, given each child's result and whether the
\* body goes on after an error.
RECURSIVE ChildrenCalled(_, _, _)
ChildrenCalled(i, results, goOn) ==
    IF i > Len(results)
    THEN {}
    ELSE {i} \cup (IF results[i] = "Err" /\ ~goOn
                   THEN {}
                   ELSE ChildrenCalled(i + 1, results, goOn))

\* An init_with_codec that fails as soon as one child failed.
MultiInitFailsOnAny(errors, n) == errors # 0

\* if errors.len() == self.outputs.len() && !errors.is_empty()
MultiInitFails(errors, n) == errors = n /\ errors # 0

\* MultiOutput::init_with_codec(codec_params): each child is called with
\* codec_params, the errors are collected (the loop goes on), and the first
\* error is returned when every child failed.
MultiInitWithCodec ==
    /\ sink = "MultiOutput"
    /\ Len(mo_trace) < MaxMultiCalls
    /\ \E p \in {"Some", "None"},
          results \in [1..out_config.children -> {"Ok", "Err"}] :
          LET called == ChildrenCalled(1, results, TRUE)
              errors == Cardinality({i \in called : results[i] = "Err"})
          IN  mo_trace' = Append(mo_trace,
                  [op |-> "init_with_codec", arg |-> p,
                   passed |-> [i \in called |-> p], results |-> results,
                   ret |-> IF MultiInitFails(errors, out_config.children)
                           THEN "Err" ELSE "Ok"])
    /\ UNCHANGED <<out_arg, out_config, create_ret, sink, fo_initialized,
                   fo_output_ctx, fo_trace>>
    /\ OutputAlone

\* MultiOutput::write(packet): each child's write is called with the packet;
\* the result is Ok(()).
MultiWrite ==
    /\ sink = "MultiOutput"
    /\ Len(mo_trace) < MaxMultiCalls
    /\ \E results \in [1..out_config.children -> {"Ok", "Err"}] :
          LET called == ChildrenCalled(1, results, ContinueAfterWriteError)
          IN  mo_trace' = Append(mo_trace,
                  [op |-> "write", arg |-> "packet",
                   passed |-> [i \in called |-> "packet"],
                   results |-> results, ret |-> "Ok"])
    /\ UNCHANGED <<out_arg, out_config, create_ret, sink, fo_initialized,
                   fo_output_ctx, fo_trace>>
    /\ OutputAlone

\* ------------------------------------ an encoder on its own (encode/*.rs)

\* The frame sizes and output resolutions the encoder is driven with.
Resolutions == {"720p", "1080p"}

\* EncoderConfig.resolution: None means the output has the size of the input.
ConfigResolutions == {"None"} \cup Resolutions

\* No call has been made on the encoder yet.
NoCall == [op |-> "none", frame |-> "None", ret |-> "none"]

\* SoftwareEncoder::new / NvencEncoder::new with the given config.resolution:
\* no backend context, no input resolution, no scaler.
EncoderConfigured(resolution) ==
    /\ fl_encoder = FALSE
    /\ fl_inside = 0
    /\ fl_pc = "idle"
    /\ fl_packets = 0
    /\ fl_polls = 0
    /\ fl_last = "none"
    /\ fl_ret = "none"
    /\ fl_config_resolution = resolution
    /\ fl_input_resolution = "None"
    /\ fl_ctx_resolution = "None"
    /\ fl_scaler = FALSE
    /\ fl_eof_sent = FALSE
    /\ fl_call = NoCall

\* The encoder of EncoderConfig::default(): resolution is None.
EncoderNew == EncoderConfigured("None")

\* The pipeline, the capture and the sinks next to the encoder take no step.
EncoderAlone ==
    /\ UNCHANGED <<configVars, callerVars, running, sessionVars>>
    /\ UNCHANGED <<captureVars, outputVars, sideVars>>

\* Encoder::codec_params, an Option written as a set of at most one value:
\* None without a backend context; else the params carry config.resolution,
\* or the input resolution when none is configured, or the size of the
\* context.
codec_params ==
    IF ~fl_encoder THEN {}
    ELSE {[resolution |->
            IF fl_config_resolution # "None" THEN fl_config_resolution
            ELSE IF fl_input_resolution # "None" THEN fl_input_resolution
            ELSE fl_ctx_resolution]}

\* init() with a context opened at once, at the configured size.
InitOpensContext ==
    /\ fl_pc = "idle"
    /\ fl_call' = [op |-> "init", frame |-> "None", ret |-> "Ok"]
    /\ fl_encoder' = TRUE
    /\ fl_ctx_resolution' = fl_config_resolution
    /\ UNCHANGED <<fl_inside, fl_pc, fl_packets, fl_polls, fl_last, fl_ret,
                   fl_config_resolution, fl_input_resolution, fl_scaler,
                   fl_eof_sent>>
    /\ EncoderAlone

\* Encoder::init: "Actual initialization happens on first frame when we know
\* the resolution"; it returns Ok(()) and touches no field.
EncoderInit ==
    /\ fl_pc = "idle"
    /\ fl_call' = [op |-> "init", frame |-> "None", ret |-> "Ok"]
    /\ UNCHANGED <<fl_encoder, fl_inside, fl_pc, fl_packets, fl_polls, fl_last,
                   fl_ret, fl_config_resolution, fl_input_resolution,
                   fl_ctx_resolution, fl_scaler, fl_eof_sent>>
    /\ EncoderAlone

\* What receive_packet can answer after send_frame: a packet, EAGAIN when the
\* backend wants more input first, or an error.
ReceiveAfterFrame ==
    {"Ok", "EAGAIN", "Err"}

\* Encoder::encode(frame).  Without a backend context init_encoder runs with
\* the frame's width and height: a failure to find or open the codec returns
\* the error with no field set; after open_with the context and the input
\* resolution are stored, and only then the scaler is built when the frame's
\* size differs from the output size, so a scaler error returns with the
\* context in place.  With a context the frame is sent as it is (a scaling or
\* send error returns) and one packet is polled: Ok gives Some(packet), EAGAIN
\* gives None and the frame stays inside the backend, any other error is
\* returned.  A context that exists is never opened again.
EncoderEncode ==
    /\ fl_pc = "idle"
    /\ fl_inside < MaxInside
    /\ \E frame \in Resolutions, opened \in BOOLEAN, scaler_built \in BOOLEAN,
          sent \in BOOLEAN, r \in ReceiveAfterFrame :
          LET out == IF fl_config_resolution # "None"
                     THEN fl_config_resolution ELSE frame
              binds == ~fl_encoder /\ opened
              scaler_fails == binds /\ frame # out /\ ~scaler_built
              Ret(x) == [op |-> "encode", frame |-> frame, ret |-> x]
          IN  /\ IF binds
                 THEN /\ fl_encoder' = TRUE
                      /\ fl_ctx_resolution' = out
                      /\ fl_input_resolution' = frame
                      /\ fl_scaler' = (frame # out /\ scaler_built)
                 ELSE UNCHANGED <<fl_encoder, fl_ctx_resolution,
                                  fl_input_resolution, fl_scaler>>
              /\ IF (~fl_encoder /\ ~opened) \/ scaler_fails \/ ~sent
                 THEN /\ fl_call' = Ret("Err")
                      /\ UNCHANGED <<fl_inside, fl_last>>
                 ELSE /\ fl_inside' = IF r = "Ok" THEN fl_inside
                                      ELSE fl_inside + 1
                      /\ fl_last' = r
                      /\ fl_call' = Ret(CASE r = "Ok" -> "Some"
                                          [] r = "EAGAIN" -> "None"
                                          [] OTHER -> "Err")
    /\ UNCHANGED <<fl_pc, fl_packets, fl_polls, fl_ret, fl_config_resolution,
                   fl_eof_sent>>
    /\ EncoderAlone

\* Encoder::flush, up to its loop: Ok(Vec::new()) when there is no backend
\* context; send_eof, whose error is returned; then the drain loop.
EncoderFlush ==
    /\ fl_pc = "idle"
    /\ \E eof \in {"Ok", "Err"} :
          IF ~fl_encoder
          THEN fl_pc' = "returned" /\ fl_ret' = "Ok"
          ELSE IF eof = "Err"
               THEN fl_pc' = "returned" /\ fl_ret' = "Err"
               ELSE fl_pc' = "draining" /\ UNCHANGED fl_ret
    /\ fl_eof_sent' = fl_encoder
    /\ fl_call' = [op |-> "flush", frame |-> "None", ret |-> "none"]
    /\ fl_packets' = 0
    /\ fl_last' = "none"
    /\ UNCHANGED <<fl_encoder, fl_inside, fl_polls, fl_config_resolution,
                   fl_input_resolution, fl_ctx_resolution, fl_scaler>>
    /\ EncoderAlone

\* What receive_packet can answer after send_eof: a packet while the backend
\* holds frames, then Eof; a backend that is still working answers EAGAIN;
\* or an error.
ReceiveAfterEof ==
    {"EAGAIN", "Err"} \cup (IF fl_inside > 0 THEN {"Ok"} ELSE {"Eof"})

\* One round of the drain loop of flush: Ok pushes the packet and goes round;
\* Err(Eof) breaks; Err(Other { errno }) if errno == EAGAIN => continue; any
\* other error is logged and breaks.  After the loop flush returns
\* Ok(packets).
FlushReceivePacket ==
    /\ fl_pc = "draining"
    /\ fl_polls < MaxPolls
    /\ \E r \in ReceiveAfterEof :
          /\ fl_last' = r
          /\ fl_polls' = fl_polls + 1
          /\ CASE r = "Ok" ->
                    /\ fl_packets' = fl_packets + 1
                    /\ fl_inside' = fl_inside - 1
                    /\ UNCHANGED <<fl_pc, fl_ret>>
               [] r = "EAGAIN" ->
                    UNCHANGED <<fl_pc, fl_ret, fl_packets, fl_inside>>
               [] OTHER ->
                    /\ fl_pc' = "returned"
                    /\ fl_ret' = "Ok"
                    /\ UNCHANGED <<fl_packets, fl_inside>>
    /\ UNCHANGED <<fl_encoder, bindVars>>
    /\ EncoderAlone

\* --------------------- frame processing on its own (processing/mod.rs)

\* FrameFormat values a capture produces.
Formats == {"Nv12", "Bgra", "Rgba", "P010"}

\* FrameFormat::bytes_per_pixel, doubled to stay in the integers: 1.5 for
\* Nv12, 4 for Bgra and Rgba, 3 for P010.
bytes_per_pixel_x2(format) ==
    CASE format = "Nv12" -> 3
      [] format \in {"Bgra", "Rgba"} -> 8
      [] OTHER -> 6

\* width * height of a resolution.
Area(resolution) ==
    IF resolution = "720p" THEN 1280 * 720 ELSE 1920 * 1080

\* width * height * bpp: the bytes a plain frame of that size and format has.
FrameBytes(resolution, format) ==
    (Area(resolution) * bytes_per_pixel_x2(format)) \div 2

\* A frame of PortalCapture: its process callback copies the buffer into
\* Frame::new(width, height, format), whose data has the full size.
PlainFrames ==
    { [data |-> FrameBytes(res, f), resolution |-> res, format |-> f,
       dmabuf_fd |-> "None"] : res \in Resolutions, f \in {"Nv12", "Bgra", "Rgba"} }

\* DmaBufFrame::to_frame: data is Vec::new(), dmabuf_fd is Some(self.fd()).
to_frame(resolution, format) ==
    [data |-> 0, resolution |-> resolution, format |-> format,
     dmabuf_fd |-> "Some"]

\* The frames DmaBufCapture::next_frame returns.
DmaBufFrames ==
    { to_frame(res, f) : res \in Resolutions, f \in Formats }

\* What a call returned: Ok with a value, Err, or a panic of the thread.
Ok(x) == [ret |-> "Ok", val |-> {x}]
Err == [ret |-> "Err", val |-> {}]
Panic == [ret |-> "panic", val |-> {}]
Value(r) == CHOOSE x \in r.val : TRUE

\* scale::scale_frame(input, src, dst): the input as it is when the sizes are
\* equal; else the input is taken to be BGRA, an input shorter than
\* src_width * src_height * 4 is an error, and the output has
\* dst_width * dst_height * 4 bytes.
scale_frame(input, src, dst) ==
    IF src = dst THEN Ok(input)
    ELSE IF input < Area(src) * 4 THEN Err
    ELSE Ok(Area(dst) * 4)

\* convert::convert_colorspace(input, src_format, dst_format, width, height):
\* equal formats and the BGRA/RGBA swap keep the length of the input;
\* bgra_to_p010 indexes the input without a test of its length; nv12_to_p010
\* refuses a short input; swscale fills a frame of the full size from what
\* the input holds.
convert_colorspace(input, src_format, dst_format, resolution) ==
    CASE src_format = dst_format -> Ok(input)
      [] {src_format, dst_format} = {"Bgra", "Rgba"} -> Ok(input)
      [] src_format \in {"Bgra", "Rgba"} /\ dst_format = "P010" ->
            IF input < Area(resolution) * 4 THEN Panic
            ELSE Ok(FrameBytes(resolution, "P010"))
      [] src_format = "Nv12" /\ dst_format = "P010" ->
            IF input < FrameBytes(resolution, "Nv12") THEN Err
            ELSE Ok(FrameBytes(resolution, "P010"))
      [] OTHER -> Ok(FrameBytes(resolution, dst_format))

\* processing::process_frame(frame, target_resolution, target_format): the
\* data is cloned, scaled when a target resolution differs from the frame's,
\* converted when a target format differs from the frame's, and returned in a
\* Frame with dmabuf_fd: None.
process_frame(frame, target_resolution, target_format) ==
    LET scales == target_resolution # "None"
                    /\ target_resolution # frame.resolution
        scaled == IF scales
                  THEN scale_frame(frame.data, frame.resolution,
                                   target_resolution)
                  ELSE Ok(frame.data)
        resolution == IF scales THEN target_resolution ELSE frame.resolution
        converts == target_format # "None" /\ target_format # frame.format
        converted == IF scaled.ret = "Ok" /\ converts
                     THEN convert_colorspace(Value(scaled), frame.format,
                                             target_format, resolution)
                     ELSE scaled
    IN  IF converted.ret # "Ok" THEN converted
        ELSE Ok([data |-> Value(converted),
                 resolution |-> resolution,
                 format |-> IF converts THEN target_format ELSE frame.format,
                 dmabuf_fd |-> "None"])

\* start(): target_resolution is encoder_config.resolution; target_format is
\* Some(pixel_format) when that is Nv12 or P010, else Some(Nv12).
TargetFormats == {"Nv12", "P010"}

\* No frame processing stands on its own next to the pipeline.
ProcessNone ==
    /\ pf_target_resolution = "None"
    /\ pf_target_format = "None"
    /\ pf_frame = {}
    /\ pf_result = [ret |-> "none", val |-> {}]
    /\ pf_encoded = {}

\* The encoder thread before its loop, for any encoder configuration.
ProcessNew ==
    /\ pf_target_resolution \in ConfigResolutions
    /\ pf_target_format \in TargetFormats
    /\ pf_frame = {}
    /\ pf_result = [ret |-> "none", val |-> {}]
    /\ pf_encoded = {}

\* The pipeline and the other components next to the processing take no step.
ProcessAlone ==
    /\ UNCHANGED <<configVars, callerVars, running, sessionVars>>
    /\ UNCHANGED <<captureVars, outputVars, flushVars>>
    /\ UNCHANGED <<raceVars, muxerVars, fdVars>>

\* frame_rx.recv_timeout returns Ok(frame): a frame the task got from
\* capture.next_frame and forwarded.
ProcessRecv ==
    /\ pf_result.ret \in {"none", "Ok", "Err"}
    /\ pf_frame = {}
    /\ \E frame \in PlainFrames \cup DmaBufFrames : pf_frame' = {frame}
    /\ UNCHANGED <<pf_target_resolution, pf_target_format, pf_result,
                   pf_encoded>>
    /\ ProcessAlone

\* The body of the loop for that frame: process_frame, `continue` on its
\* error, else encoder.encode(&processed).
ProcessAndEncode ==
    /\ pf_frame # {}
    /\ LET frame == CHOOSE f \in pf_frame : TRUE
           processed == process_frame(frame, pf_target_resolution,
                                      pf_target_format)
       IN  /\ pf_result' = processed
           /\ pf_encoded' = IF processed.ret = "Ok" THEN processed.val
                            ELSE pf_encoded
    /\ pf_frame' = {}
    /\ UNCHANGED <<pf_target_resolution, pf_target_format>>
    /\ ProcessAlone

\* ------------------- start() and stop() called side by side (pipeline.rs)

\* The tasks that hold a reference to the pipeline and call start(&self) and
\* stop(&self) on it.
Callers == 1..MaxCallers

\* No caller has called anything yet.
RaceNone ==
    /\ st_pc = [c \in Callers |-> "idle"]
    /\ st_ret = [c \in Callers |-> "none"]
    /\ st_calls = [c \in Callers |-> 0]
    /\ st_live = 0

\* The sessions and the other components take no step.
RaceAlone ==
    /\ UNCHANGED <<configVars, callerVars, sessionVars>>
    /\ UNCHANGED <<captureVars, outputVars, flushVars, processVars>>
    /\ UNCHANGED <<muxerVars, fdVars>>

\* start(), its first statement: `if self.running.load(SeqCst)` returns
\* Err(PipelineAlreadyRunning); else the call goes on.
RaceStartTest ==
    \E c \in Callers :
        /\ st_pc[c] = "idle"
        /\ st_calls[c] < MaxCalls
        /\ st_calls' = [st_calls EXCEPT ![c] = @ + 1]
        /\ IF running
           THEN /\ st_ret' = [st_ret EXCEPT ![c] = "Err(PipelineAlreadyRunning)"]
                /\ UNCHANGED st_pc
           ELSE /\ st_pc' = [st_pc EXCEPT ![c] = "start_tested"]
                /\ st_ret' = [st_ret EXCEPT ![c] = "none"]
        /\ UNCHANGED <<running, st_live>>
        /\ RaceAlone

\* start(), the rest: self.running.store(true, SeqCst), then the channels
\* are created, the threads and the task are spawned and Ok(()) is returned.
RaceStartSet ==
    \E c \in Callers :
        /\ st_pc[c] = "start_tested"
        /\ running' = TRUE
        /\ st_live' = st_live + 1
        /\ st_pc' = [st_pc EXCEPT ![c] = "idle"]
        /\ st_ret' = [st_ret EXCEPT ![c] = "Ok"]
        /\ UNCHANGED st_calls
        /\ RaceAlone

\* stop(), its first statement: `if !self.running.load(SeqCst)` returns
\* Ok(()); else the call goes on.
RaceStopTest ==
    \E c \in Callers :
        /\ st_pc[c] = "idle"
        /\ st_calls[c] < MaxCalls
        /\ st_calls' = [st_calls EXCEPT ![c] = @ + 1]
        /\ IF ~running
           THEN /\ st_ret' = [st_ret EXCEPT ![c] = "Ok(stop)"]
                /\ UNCHANGED st_pc
           ELSE /\ st_pc' = [st_pc EXCEPT ![c] = "stop_tested"]
                /\ st_ret' = [st_ret EXCEPT ![c] = "none"]
        /\ UNCHANGED <<running, st_live>>
        /\ RaceAlone

\* stop(), the rest: self.running.store(false, SeqCst), the 200 ms sleep and
\* Ok(()).
RaceStopClear ==
    \E c \in Callers :
        /\ st_pc[c] = "stop_tested"
        /\ running' = FALSE
        /\ st_live' = 0
        /\ st_pc' = [st_pc EXCEPT ![c] = "idle"]
        /\ st_ret' = [st_ret EXCEPT ![c] = "Ok(stop)"]
        /\ UNCHANGED st_calls
        /\ RaceAlone

\* ------------------------------ the A/V muxer on its own (output/muxer.rs)

\* AvMuxer::new: no stream yet, video_stream_index: 0,
\* audio_stream_index: None, initialized: false.
AvMuxerNew ==
    /\ mx_streams = <<>>
    /\ mx_video_stream_index = 0
    /\ mx_audio_stream_index = {}
    /\ mx_initialized = FALSE
    /\ mx_written = <<>>

\* No A/V muxer stands on its own next to the pipeline.
MuxerNone ==
    /\ mx_pc = "none"
    /\ mx_video_params = "None"
    /\ AvMuxerNew

\* The task has received its params and created the muxer with AvMuxer::new:
\* the audio params are Some (else the muxer is not used), the video params
\* are Some or None.
MuxerCreated ==
    /\ mx_pc = "created"
    /\ mx_video_params \in {"Some", "None"}
    /\ AvMuxerNew

\* The pipeline and the other components next to the muxer take no step.
MuxerAlone ==
    /\ UNCHANGED <<configVars, callerVars, running, sessionVars>>
    /\ UNCHANGED <<captureVars, outputVars, flushVars>>
    /\ UNCHANGED <<processVars, raceVars, fdVars>>

\* output_ctx.add_stream(codec): the new stream gets the next index, counted
\* from 0.
add_stream(type) == Append(mx_streams, type)
stream_index == Len(mx_streams)

\* output_ctx.stream(index): the stream at that index, if there is one.
stream(index) ==
    IF index < Len(mx_streams) THEN {mx_streams[index + 1]} ELSE {}

\* `if let Some(ref params) = video_params { muxer.add_video_stream(params) }`:
\* add_video_stream adds a stream and stores its index; an error ends the
\* task; without params the call is skipped.
MuxAddVideoStream ==
    /\ mx_pc = "created"
    /\ IF mx_video_params = "Some"
       THEN \E ok \in BOOLEAN :
               IF ok
               THEN /\ mx_streams' = add_stream("video")
                    /\ mx_video_stream_index' = stream_index
                    /\ mx_pc' = "video_done"
               ELSE /\ mx_pc' = "failed"
                    /\ UNCHANGED <<mx_streams, mx_video_stream_index>>
       ELSE /\ mx_pc' = "video_done"
            /\ UNCHANGED <<mx_streams, mx_video_stream_index>>
    /\ UNCHANGED <<mx_video_params, mx_audio_stream_index, mx_initialized,
                   mx_written>>
    /\ MuxerAlone

\* muxer.add_audio_stream(params): adds a stream and stores Some(its index);
\* an error ends the task.
MuxAddAudioStream ==
    /\ mx_pc = "video_done"
    /\ \E ok \in BOOLEAN :
          IF ok
          THEN /\ mx_streams' = add_stream("audio")
               /\ mx_audio_stream_index' = {stream_index}
               /\ mx_pc' = "audio_done"
          ELSE /\ mx_pc' = "failed"
               /\ UNCHANGED <<mx_streams, mx_audio_stream_index>>
    /\ UNCHANGED <<mx_video_params, mx_video_stream_index, mx_initialized,
                   mx_written>>
    /\ MuxerAlone

\* muxer.start(): write_header, then initialized = true; an error ends the
\* task.
MuxStart ==
    /\ mx_pc = "audio_done"
    /\ \E ok \in BOOLEAN :
          /\ mx_initialized' = ok
          /\ mx_pc' = IF ok THEN "started" ELSE "failed"
    /\ UNCHANGED <<mx_video_params, mx_streams, mx_video_stream_index,
                   mx_audio_stream_index, mx_written>>
    /\ MuxerAlone

\* A packet written with write_interleaved into the stream of that index.
Written(kind, index) ==
    [packet |-> kind, stream |-> index, type |-> stream(index)]

\* muxer.write_video(&packet): refused before start(); the packet is given
\* video_stream_index, "Video stream not found" when the context has no
\* stream of that index, else the packet is written (an error is returned).
MuxWriteVideo ==
    /\ mx_pc = "started"
    /\ Len(mx_written) < MaxMuxWrites
    /\ \E ok \in BOOLEAN :
          mx_written' =
              IF mx_initialized /\ stream(mx_video_stream_index) # {} /\ ok
              THEN Append(mx_written, Written("video", mx_video_stream_index))
              ELSE mx_written
    /\ UNCHANGED <<mx_pc, mx_video_params, mx_streams, mx_video_stream_index,
                   mx_audio_stream_index, mx_initialized>>
    /\ MuxerAlone

\* muxer.write_audio(&packet): refused before start() and without an audio
\* stream; else the packet is written into the stream of audio_stream_index.
MuxWriteAudio ==
    /\ mx_pc = "started"
    /\ Len(mx_written) < MaxMuxWrites
    /\ \E ok \in BOOLEAN :
          mx_written' =
              IF /\ mx_initialized
                 /\ \E i \in mx_audio_stream_index : stream(i) # {}
                 /\ ok
              THEN Append(mx_written,
                          Written("audio",
                                  CHOOSE i \in mx_audio_stream_index : TRUE))
              ELSE mx_written
    /\ UNCHANGED <<mx_pc, mx_video_params, mx_streams, mx_video_stream_index,
                   mx_audio_stream_index, mx_initialized>>
    /\ MuxerAlone

\* ------------------- the descriptors of DMA-BUF frames (capture/dmabuf.rs)

\* The descriptors of the buffers PipeWire hands to the process callback.
Buffers == 1..MaxBuffers

\* No DMA-BUF capture stands on its own next to the pipeline.
FdNone ==
    /\ fd_open = {}
    /\ fd_other = {}
    /\ fd_ch = <<>>
    /\ fd_frame = {}

\* DmaBufCapture::start has run: the channel is empty and the stream's
\* buffers are open.
FdStarted ==
    /\ fd_open = Buffers
    /\ fd_other = {}
    /\ fd_ch = <<>>
    /\ fd_frame = {}

\* The pipeline and the other components take no step.
FdAlone ==
    /\ UNCHANGED <<configVars, callerVars, running, sessionVars>>
    /\ UNCHANGED <<captureVars, outputVars, flushVars>>
    /\ UNCHANGED <<processVars, raceVars, muxerVars>>

\* Drop of a DmaBufFrame: its field fd is an OwnedFd ("closes on drop"), so
\* the number is closed, whatever it names by now.
DropDmaBufFrame(fd) ==
    /\ fd_open' = fd_open \ {fd}
    /\ fd_other' = fd_other \ {fd}

\* The process callback: a buffer with raw_fd >= 0 is wrapped by
\* DmaBufFrame::new, which takes the descriptor over with
\* OwnedFd::from_raw_fd, and the frame is offered with try_send; a frame the
\* full channel refuses is dropped.
FdProcess ==
    /\ \E fd \in Buffers :
          IF Len(fd_ch) < CaptureCap
          THEN /\ fd_ch' = Append(fd_ch, fd)
               /\ UNCHANGED <<fd_open, fd_other>>
          ELSE /\ DropDmaBufFrame(fd)
               /\ UNCHANGED fd_ch
    /\ UNCHANGED fd_frame
    /\ FdAlone

\* DmaBufCapture::next_frame with a frame in the channel: to_frame copies the
\* number into dmabuf_fd: Some(self.fd()), the Frame is returned, and the
\* DmaBufFrame goes out of scope at the end of the match arm.
FdNextFrame ==
    /\ fd_ch # <<>>
    /\ fd_frame' = {Head(fd_ch)}
    /\ fd_ch' = Tail(fd_ch)
    /\ DropDmaBufFrame(Head(fd_ch))
    /\ FdAlone

\* Some other part of the process opens a file: the kernel gives it a number
\* that is free, which may be one a frame still carries.
FdOpenOther ==
    /\ \E fd \in Buffers \ fd_open :
          /\ fd_open' = fd_open \cup {fd}
          /\ fd_other' = fd_other \cup {fd}
    /\ UNCHANGED <<fd_ch, fd_frame>>
    /\ FdAlone

\* ------------------------------------------------------------ specification

\* No component stands on its own next to the pipeline.
SideNone == ProcessNone /\ RaceNone /\ MuxerNone /\ FdNone

\* The outputs of the sessions explored with and without audio: a file and a
\* network sink.  The task treats every variant other than File alike; all of
\* them are explored by the video-only specification below.
SessionOutputs == {"File", "Rtmp"}

Init ==
    /\ PipelineNew /\ output_kind \in SessionOutputs
    /\ CaptureNone /\ OutputNone /\ EncoderNew /\ SideNone


Next == Start \/ StopBegin \/ StopReturn \/ EncoderThread \/ AudioThread
            \/ AsyncTask

Spec == Init /\ [][Next]_vars

\* A pipeline built from the default configuration: AudioConfig::default() has
\* enabled = false, so start() spawns no audio thread and answers the audio
\* parameters with None itself.
InitVideoOnly ==
    /\ PipelineNew /\ ~audio_enabled
    /\ CaptureNone /\ OutputNone /\ EncoderNew /\ SideNone

NextVideoOnly == Start \/ StopBegin \/ StopReturn \/ EncoderThread \/ AsyncTask

SpecVideoOnly == InitVideoOnly /\ [][NextVideoOnly]_vars

\* The pipeline with a caller that starts it again after stop() has returned.
NextRestart == Next \/ StartAgain

SpecRestart == Init /\ [][NextRestart]_vars

\* The pipeline with a caller that starts it again after stop() has returned,
\* following the threads and the task of the earlier session.
InitEarlier == Init /\ output_is_file

NextEarlier == Next \/ StartBesideEarlier

SpecEarlier == InitEarlier /\ [][NextEarlier]_vars

\* A session in which the caller calls stop() right after start(): no thread
\* and no task takes a step in between.
StopCalledAtOnce == callerPc # "started"

\* The encoder thread then finds the flag clear at its first test of the loop
\* condition, so the body of its loop takes no part.
NextStopAtOnce ==
    \/ Start
    \/ StopBegin
    \/ StopReturn
    \/ StopCalledAtOnce /\ EncCreate
    \/ StopCalledAtOnce /\ EncInit
    \/ StopCalledAtOnce /\ EncLoopCheck
    \/ StopCalledAtOnce /\ EncAfterLoop
    \/ StopCalledAtOnce /\ EncFlushSend
    \/ StopCalledAtOnce /\ AudioThread
    \/ StopCalledAtOnce /\ AsyncTask

SpecStopAtOnce == Init /\ [][NextStopAtOnce]_vars

\* A capture driven on its own: its caller, its capture thread and the clock.
InitCapture ==
    /\ PipelineNew /\ ~audio_enabled /\ output_is_file
    /\ CaptureNew /\ OutputNone /\ EncoderNew /\ SideNone

NextCapture ==
    CapStart \/ CapStop \/ CapThreadExit \/ CapTick \/ CapCallbackStamp
        \/ CapCallbackSend \/ CapNextFrame \/ CapStateChanged
        \/ CapLoopTest

SpecCapture == InitCapture /\ [][NextCapture]_vars

\* The output side on its own: an Output is chosen, create_output builds the
\* sink, and the sink's owner calls it.
InitOutput == Init /\ ~audio_enabled /\ output_is_file

NextOutput ==
    CmdCaptureOutput \/ BuilderOutput \/ CreateOutput \/ FileInitWithCodec
        \/ FileWrite \/ FileFinish \/ FileDrop \/ MultiInitWithCodec
        \/ MultiWrite

SpecOutput == InitOutput /\ [][NextOutput]_vars

\* An encoder driven on its own: frames are encoded, then flush is called.
InitEncoder ==
    /\ PipelineNew /\ ~audio_enabled /\ output_is_file
    /\ CaptureNone /\ OutputNone /\ SideNone
    /\ \E resolution \in ConfigResolutions : EncoderConfigured(resolution)

NextEncoder ==
    EncoderInit \/ EncoderEncode \/ EncoderFlush \/ FlushReceivePacket

SpecEncoder == InitEncoder /\ [][NextEncoder]_vars

\* The body of the encoder thread's loop on its own: frames arrive, are
\* processed and handed to the encoder.
InitProcess ==
    /\ PipelineNew /\ ~audio_enabled /\ output_is_file
    /\ CaptureNone /\ OutputNone /\ EncoderNew
    /\ ProcessNew /\ RaceNone /\ MuxerNone /\ FdNone

NextProcess == ProcessRecv \/ ProcessAndEncode

SpecProcess == InitProcess /\ [][NextProcess]_vars

\* The A/V muxer arm of the task on its own: the streams are added, the
\* header is written, packets are written.
InitMuxer ==
    /\ PipelineNew /\ audio_enabled /\ output_is_file
    /\ CaptureNone /\ OutputNone /\ EncoderNew
    /\ ProcessNone /\ RaceNone /\ MuxerCreated /\ FdNone

NextMuxer ==
    MuxAddVideoStream \/ MuxAddAudioStream \/ MuxStart \/ MuxWriteVideo
        \/ MuxWriteAudio

SpecMuxer == InitMuxer /\ [][NextMuxer]_vars

\* A started DmaBufCapture on its own: its process callback, its caller and
\* the rest of the process, which opens files of its own.
InitDmaBuf ==
    /\ PipelineNew /\ ~audio_enabled /\ output_is_file
    /\ CaptureNone /\ OutputNone /\ EncoderNew
    /\ ProcessNone /\ RaceNone /\ MuxerNone /\ FdStarted

NextDmaBuf == FdProcess \/ FdNextFrame \/ FdOpenOther

SpecDmaBuf == InitDmaBuf /\ [][NextDmaBuf]_vars

\* Several tasks call start() and stop() on one pipeline at the same time.
NextRace == RaceStartTest \/ RaceStartSet \/ RaceStopTest \/ RaceStopClear

SpecRace == InitOutput /\ [][NextRace]_vars

\* Every thread that can take a step eventually takes one (the OS scheduler and
\* the tokio runtime).  The 1 ms sleep of the shutdown branch wins the select!
\* against a capture that delivers a frame every few milliseconds: that branch
\* is strongly fair.  Nothing obliges the caller to call stop().
FairSpec ==
    /\ Spec
    /\ WF_vars(EncoderThread)
    /\ WF_vars(AudioThread)
    /\ WF_vars(AsyncTask)
    /\ SF_vars(AsyncShutdown)

\* The capture branch of select! completes with a frame.
CaptureDelivers == AsyncSelectBranch("capture") /\ asyncPc' = "send_frame"

\* The audio loop gets a frame and its encoder returns a packet.
AudioProduces == AudioNext /\ audPc' = "send"

\* As FairSpec, with sources that keep delivering: a capture that can still
\* deliver a frame does so in the end (PortalCapture returns a frame every
\* 100 ms at the latest), and so does the audio capture with its encoder.
LiveSpec ==
    /\ FairSpec
    /\ SF_vars(CaptureDelivers)
    /\ SF_vars(AudioProduces)

\* ------------------------------------------------------------------ claims

\* stop() has cleared the running flag of a started session.
StopCleared == sessions > 0 /\ ~running

\* The encoder thread is blocked in packet_tx.blocking_send.
EncBlockedOnPacketSend ==
    /\ encPc \in {"send", "flush_send"}
    /\ enc_out > 0
    /\ ~PacketSendReturns

\* The task is blocked in frame_tx.send.
TaskBlockedOnFrameSend == asyncPc = "send_frame" /\ ~FrameSendReturns

\* C1: a started pipeline whose running flag stays set eventually forwards a
\* captured frame to the encoder thread and writes its packet to the output,
\* without stop() being called (and without a thread having ended, which
\* before stop() only an initialisation failure brings about).
C1_FrameEventuallyWritten ==
    (sessions > 0) ~> (written > 0 \/ ~running \/ EncoderGone \/ TaskGone)

\* C2: the encoder thread resolves the video single-shot exactly once however
\* it ends: never two sends, one send once the thread is gone, None unless a
\* packet was produced, and the task's await can complete once it is gone.
C2_CodecParamsExactlyOnce ==
    /\ codec_sends <= 1
    /\ EncoderGone => codec_sends = 1 /\ VideoParamsResolved
    /\ (EncoderGone /\ ~enc_bound) => codec_params_ch = "None"
    /\ (codec_sends = 0) = (codec_params_ch = "empty")

\* The encoder thread left its loop on stop() and has ended, having sent None.
C2_Witness ==
    /\ EncoderGone
    /\ enc_flushed
    /\ ~running
    /\ codec_sends = 1
    /\ codec_params_ch = "None"

\* C3: the task makes no output operation (create, init, muxer setup, write)
\* before it has received the value of the video single-shot.
C3_NoOutputBeforeParams ==
    (out_state # "none" \/ output_handler # "none" \/ written > 0)
        => video_params # "unset"

\* The output is initialised, after the task received None.
C3_Witness == out_state = "ready" /\ video_params = "None"

\* C5: no state has the encoder thread blocked in blocking_send on the full
\* packet channel while the task is blocked sending into the full frame channel.
C5_NoMutualBlocking == ~(EncBlockedOnPacketSend /\ TaskBlockedOnFrameSend)

\* The task is blocked on the full frame channel while the encoder thread,
\* past its loop, is not blocked and goes on to end.
C5_Witness ==
    /\ TaskBlockedOnFrameSend
    /\ frame_ch = FrameCap
    /\ encPc \in {"after_loop", "flush_send"}
    /\ ~EncBlockedOnPacketSend

\* C6: forwarding a captured frame never blocks the task: with 4 frames in the
\* frame channel the new frame is discarded and the select loop goes on.
C6_FrameSendNeverBlocks == ~TaskBlockedOnFrameSend

C8_AudioThreadStops == (audio_enabled /\ StopCleared) ~> (audPc = "done")

\* C9: when stop() has returned, the session has completed: both the encoder
\* thread and the task have ended and no output is left unfinished.
C9_StopReturnsAfterCompletion ==
    (callerPc = "stopped" /\ sessions > 0)
        => (EncoderGone /\ TaskGone /\ out_state # "ready")

\* C10: a start() on a pipeline whose running flag is set returns
\* PipelineAlreadyRunning and changes neither the flag nor the session.
C10_StartWhileRunningRejected ==
    [][(Start /\ running)
          => (start_result' = "AlreadyRunning" /\ running'
              /\ UNCHANGED sessionVars)]_vars

\* start() was refused on the running pipeline, whose session is the first.
C10_Witness == start_result = "AlreadyRunning" /\ running /\ sessions = 1

\* C11: once a stop() that followed a start() has returned, is_running() is
\* false, and a start() made then returns Ok and launches a new session with
\* fresh channels, a new encoder thread and a new task.
C11_RestartAfterStop ==
    /\ [](callerPc = "stopped" => ~running)
    /\ [][StartAgain => (/\ start_result' = "Ok"
                         /\ running'
                         /\ sessions' = sessions + 1
                         /\ frame_ch' = 0
                         /\ packet_ch' = 0
                         /\ audio_packet_ch' = 0
                         /\ codec_params_ch' = "empty"
                         /\ encPc' = "create"
                         /\ asyncPc' = "create_capture")]_vars

\* The second session was launched by a start() after stop() returned.
C11_Witness ==
    /\ sessions = 2
    /\ start_result = "Ok"
    /\ running
    /\ callerPc = "started"
    /\ encPc = "create"

\* C13: at the end of a session frames_dropped equals frames_captured minus
\* frames_encoded.
C13_DroppedIsCapturedMinusEncoded ==
    (EncoderGone /\ TaskGone)
        => stats.frames_dropped + stats.frames_encoded = stats.frames_captured

\* C15: the pts of the frames PortalCapture::next_frame returns within one
\* session never decrease.
C15_PortalPtsMonotone ==
    cap_backend = "Portal"
        => \A i \in 1..(Len(cap_returned) - 1) :
              cap_returned[i] <= cap_returned[i + 1]

\* C16: next_frame returns the Timeout error when no frame came within 100 ms
\* and the CaptureEnded error when the frame channel is closed.
C16_NextFrameTimeoutAndEnded ==
    cap_result.op = "next_frame"
        => /\ cap_result.on = "timeout" => cap_result.ret = "Err(Timeout)"
           /\ cap_result.on = "closed" => cap_result.ret = "Err(CaptureEnded)"

\* C17: start() on a started capture returns Ok and leaves the session as it
\* was: no thread spawned, the frame channel not replaced.
C17_CaptureStartIdempotent ==
    [][(CapStart /\ cap_active)
          => (/\ cap_result'.ret = "Ok"
              /\ UNCHANGED <<cap_active, cap_spawned, cap_channels,
                             cap_tx_open, cap_ch>>)]_vars

\* C18: when next_frame reports that the capture has ended, the task leaves
\* its main loop and shuts down (capture stopped, output finished) without
\* stop() being called.
C18_CaptureEndedShutsDown ==
    (asyncPc = "capture_err" /\ capture_ended /\ running)
        ~> ((TaskGone /\ capture_stopped /\ out_state = "finished")
               \/ ~running)

\* An initialisation of the session has failed: the encoder thread ended
\* without reaching its flush (create_encoder or init failed), or the task
\* ended without an output (create_capture or capture.start failed) or with
\* one it could not create or initialise.
InitFailed ==
    /\ sessions > 0
    /\ \/ EncoderGone /\ ~enc_flushed
       \/ TaskGone /\ out_state \in {"none", "failed"}

\* C19: after a failed initialisation every thread and task start() spawned
\* eventually ends.
C19_InitFailureEndsAll ==
    InitFailed ~> (EncoderGone /\ TaskGone /\ audPc \in {"idle", "done"})


\* C21: MultiOutput::write calls write on every child sink for each packet,
\* also on the children that come after a child whose write failed, and itself
\* returns Ok.
C21_MultiWriteReachesEveryChild ==
    \A k \in 1..Len(mo_trace) :
        mo_trace[k].op = "write" =>
            /\ DOMAIN mo_trace[k].passed = 1..out_config.children
            /\ mo_trace[k].ret = "Ok"

\* A write whose first child failed and whose second child was still called.
C21_Witness ==
    \E k \in 1..Len(mo_trace) :
        /\ mo_trace[k].op = "write"
        /\ out_config.children >= 2
        /\ mo_trace[k].results[1] = "Err"
        /\ 2 \in DOMAIN mo_trace[k].passed
        /\ mo_trace[k].ret = "Ok"

\* C22: MultiOutput::init_with_codec calls init_with_codec on every child with
\* the codec params it was given, and returns an error exactly when every
\* child failed.
C22_MultiInitFailsIffAllFail ==
    \A k \in 1..Len(mo_trace) :
        mo_trace[k].op = "init_with_codec" =>
            /\ DOMAIN mo_trace[k].passed = 1..out_config.children
            /\ \A i \in 1..out_config.children :
                  mo_trace[k].passed[i] = mo_trace[k].arg
            /\ (mo_trace[k].ret = "Err")
                  <=> (\A i \in 1..out_config.children :
                          mo_trace[k].results[i] = "Err")

\* An init_with_codec in which one child failed, another did not, and the
\* result was Ok; and one in which every child failed and the result was Err.
C22_Witness ==
    /\ Len(mo_trace) = 2
    /\ mo_trace[1].op = "init_with_codec"
    /\ mo_trace[1].ret = "Ok"
    /\ \E i \in 1..out_config.children : mo_trace[1].results[i] = "Err"
    /\ mo_trace[2].op = "init_with_codec"
    /\ mo_trace[2].ret = "Err"


\* C24: for a FileOutput whose header has been written, consecutive finish()
\* calls write the trailer exactly once: the first of them writes it, every
\* later one returns Ok and writes nothing, and a drop after them writes no
\* further trailer.
C24_FinishWritesTrailerOnce ==
    \A i \in 1..Len(fo_trace) :
        (fo_trace[i].op = "finish" /\ fo_trace[i].open) =>
            /\ fo_trace[i].trailer
            /\ \A j \in (i + 1)..Len(fo_trace) :
                  (\A k \in (i + 1)..j : fo_trace[k].op \in {"finish", "drop"})
                      => /\ ~fo_trace[j].trailer
                         /\ fo_trace[j].ret = "Ok"


\* C25: when the codec params the task received are None and the output is
\* RTMP or SRT, the initialisation of the output returns an error and the task
\* ends there: the output of such a session is never initialised.
C25_NoDefaultParamsForStreams ==
    (output_kind \in {"Rtmp", "Srt"} /\ video_params = "None")
        => /\ out_state \in {"none", "failed"}
           /\ asyncPc \in {"await_audio", "init_output", "done"}

\* C26: when the output is the virtual camera, the task never holds it as the
\* sink of encoded packets (the handler whose write takes packets) and passes
\* it no packet.
C26_CameraOnRawPath ==
    output_kind = "VirtualCamera"
        => (output_handler # "VideoOnly" /\ written = 0)

\* C27: the --output argument is routed by its shape: .mkv, .mp4, .webm and
\* .ts to a file sink with the Matroska, MP4, WebM and MPEG-TS container;
\* rtmp:// and rtmps:// to RTMP; srt:// to SRT; the word camera to the virtual
\* camera; and create_output returns the sink of the Output variant given.
C27_OutputRoutedByShape ==
    /\ out_arg # <<>> =>
          /\ ends_with(out_arg, ExtMkv)
                => out_config = OutputOf("File", "Matroska", 0)
          /\ ends_with(out_arg, ExtMp4)
                => out_config = OutputOf("File", "Mp4", 0)
          /\ ends_with(out_arg, ExtWebm)
                => out_config = OutputOf("File", "WebM", 0)
          /\ ends_with(out_arg, ExtTs)
                => out_config = OutputOf("File", "Ts", 0)
          /\ (starts_with(out_arg, SchemeRtmp)
                 \/ starts_with(out_arg, SchemeRtmps))
                => out_config.kind = "Rtmp"
          /\ starts_with(out_arg, SchemeSrt) => out_config.kind = "Srt"
          /\ out_arg = WordCamera => out_config.kind = "VirtualCamera"
    /\ (create_ret = "Ok" /\ sink # "dropped") =>
          sink = CASE out_config.kind = "File" -> "FileOutput"
                   [] out_config.kind = "Rtmp" -> "RtmpOutput"
                   [] out_config.kind = "Srt" -> "SrtOutput"
                   [] out_config.kind = "VirtualCamera" -> "VirtualCamera"
                   [] out_config.kind = "Multiple" -> "MultiOutput"
                   [] OTHER -> "NullOutput"


\* C28: in a session where stop() is called right after start(), once the
\* encoder thread has ended through its flush and the task through its
\* cleanup (nothing failed to initialise), the statistics are
\* frames_captured = 0 and frames_encoded = 0, and a file output has its
\* header and its trailer written.
C28_ZeroFrameSession ==
    (EncoderGone /\ enc_flushed /\ TaskGone /\ capture_stopped)
        => /\ stats.frames_captured = 0
           /\ stats.frames_encoded = 0
           /\ output_is_file => out_state = "finished"

\* C29: the audio single-shot is resolved exactly once in every session: once
\* it is resolved it stays as it is, every session resolves it, and the task
\* that waits on it gets past the wait.
C29_AudioParamsResolvedOnce ==
    /\ [][audio_params_ch # "empty" => audio_params_ch' = audio_params_ch]_vars
    /\ (sessions > 0) ~> (audio_params_ch # "empty")
    /\ (asyncPc = "await_audio") ~> (asyncPc # "await_audio")

\* With audio enabled the task got the audio thread's params and went on,
\* while the single-shot still holds what was sent.
C29_Witness ==
    /\ audio_enabled
    /\ audio_params_ch = "Some"
    /\ audio_params = "Some"
    /\ asyncPc = "init_output"

\* C30: Encoder::flush terminates: once EOF is sent it stops draining as soon
\* as the backend answers EOF or EAGAIN, and returns the packets collected.
C30_FlushStopsAtEofOrEagain ==
    (fl_pc # "idle" /\ fl_last \in {"Eof", "EAGAIN"})
        => (fl_pc = "returned" /\ fl_ret = "Ok")

\* C31: an encoder has a backend context exactly when some encode call has
\* opened it.  Without one, codec_params() is None, no EOF has been sent and a
\* flush that has returned gave Ok with an empty list; init() never opens it.
\* The context appears only in an encode step, which records that frame's
\* width and height as the input resolution, and once it exists no call
\* changes the context or the geometry it was bound to.
C31_Unbound ==
    ~fl_encoder =>
        /\ codec_params = {}
        /\ fl_input_resolution = "None" /\ fl_ctx_resolution = "None"
        /\ ~fl_eof_sent
        /\ fl_pc = "returned" => (fl_ret = "Ok" /\ fl_packets = 0)

C31_BindingStep ==
    /\ fl_call'.op = "init" => UNCHANGED fl_encoder
    /\ (~fl_encoder /\ fl_encoder') =>
          /\ fl_call'.op = "encode"
          /\ fl_input_resolution' = fl_call'.frame
    /\ fl_encoder =>
          UNCHANGED <<fl_encoder, fl_input_resolution, fl_ctx_resolution>>

C32_StreamErrorQuitsLoop ==
    (cap_backend = "Portal" /\ cap_stream = "Error") => ~cap_iterated

\* C33: every frame handed to Encoder::encode is plain data, a buffer of at
\* least width * height * bpp bytes; a frame with empty data and no file
\* descriptor never comes out of process_frame into the encoder.
C33_EncodedFramesArePlain ==
    \A f \in pf_encoded :
        /\ f.data >= FrameBytes(f.resolution, f.format)
        /\ ~(f.data = 0 /\ f.dmabuf_fd = "None")

\* C34: of the start() calls that run at the same time at most one returns
\* Ok and spawns its threads and task: while the running flag has not been
\* cleared in between, no second session is spawned.
C34_StartTestAndSetAtomic == st_live <= 1

\* C35: after start() has been called again, the loops of the earlier session
\* still end: its encoder loop and its audio loop find their condition false
\* at the next test, and the shutdown branch of its select is ready.
C35_EarlierSessionStillEnds ==
    callerPc = "restarted" =>
        /\ encPc = "loop" => ~EncLoopCondition
        /\ audPc = "loop" => ~AudioLoopCondition
        /\ asyncPc = "select" => "shutdown" \in SelectReady

\* C36: once every thread and the task of a session have ended on their own,
\* with no stop() called, is_running() is false, and a start() made then
\* returns Ok.
C36_EndedSessionNotRunning ==
    /\ [](  (/\ sessions > 0
             /\ callerPc = "started"
             /\ EncoderGone /\ TaskGone /\ audPc \in {"idle", "done"})
          => ~is_running)
    /\ [][(/\ Start
           /\ sessions > 0
           /\ EncoderGone /\ TaskGone /\ audPc \in {"idle", "done"})
          => start_result' = "Ok"]_vars

\* C37: every packet written by AvMuxer::write_video went into a stream that
\* add_video_stream created, never into the audio stream, also when the
\* pipeline skipped add_video_stream.
C37_VideoPacketsInVideoStream ==
    \A k \in 1..Len(mx_written) :
        mx_written[k].packet = "video" => mx_written[k].type = {"video"}

\* C38: the descriptor in dmabuf_fd of the Frame that next_frame returned is
\* open and still names the buffer: the drop of the DmaBufFrame that owned it
\* has not closed it.
C38_FrameFdStaysOpen ==
    \A fd \in fd_frame : fd \in fd_open /\ fd \notin fd_other

\* C39: over its lifetime a FileOutput writes at most one header and at most
\* one trailer, whatever the sequence of init_with_codec, write and finish
\* calls; a write after finish does not open the file again and write a
\* second header.
C39_OneHeaderOneTrailer ==
    /\ Cardinality({i \in 1..Len(fo_trace) : fo_trace[i].header}) <= 1
    /\ Cardinality({i \in 1..Len(fo_trace) : fo_trace[i].trailer}) <= 1

====
